---- MODULE Spec2Model ----
(***************************************************************************)
(* A model of the protocol_toolkit codec generators and of the C code they *)
(* emit.                                                                   *)
(*                                                                         *)
(*  - SpecLayout : the scalar transcription emitted by get_encode_code and *)
(*    get_decode_code (src/attic/gen_codec/gen_codec.py), one primitive    *)
(*    type and one value (or one wire image) at a time.                    *)
(*  - SpecBits   : the bit-field accessor pair emitted by generate_header  *)
(*    (src/tools/gen_codec/attic/gen_codec_final.py and its variants).     *)
(*  - SpecDecode : the <R>_decode / <R>_encode / <R>_dispose functions     *)
(*    emitted by generate_implementation, run step by step over a heap and *)
(*    the byte buffers: a record is decoded and, once decoded, encoded.    *)
(*  - SpecCompile : one schema file going through process_ast and          *)
(*    generate_header of src/tools/gen_codec/attic/gen_codec_fixed.py.     *)
(*  - SpecDispose : <R>_dispose called on what a decode left behind, or   *)
(*    on NULL.                                                             *)
(*  - SpecConcurrent : two threads, each running the emitted decode,       *)
(*    encode and dispose on buffers and values of its own.                 *)
(*  - SpecDriver : main of the generators, one input file after another.   *)
(*  - SpecFields : parse_struct_fields of src/attic/gen_codec/gen_codec.py *)
(*    on the text of a struct body, character by character.                *)
(*  - SpecPdl    : SimplePDLParser.parse_file of gen_codec_v2.py on the    *)
(*    text of a schema, token by token.                                    *)
(*                                                                         *)
(* Values wider than 31 bits do not fit a TLC integer, so a C integer is   *)
(* held as its bytes (a function from the byte's significance, shift/8,    *)
(* to 0..255) or as the set of its one-bits.                               *)
(*                                                                         *)
(* C undefined behaviour.  A left shift of a promoted int whose result     *)
(* does not fit (bytes[0] << 24 with bytes[0] >= 0x80, 15 << 28) wraps in  *)
(* two's complement on every build (GCC and Clang document that they do    *)
(* not use the latitude).  A shift by a count >= the width of int yields   *)
(* either the shift by count mod 32 (x86 shl) or 0 (ARM lsl, constant      *)
(* folding): the model chooses between them nondeterministically.          *)
(***************************************************************************)
EXTENDS Integers, Sequences, FiniteSets, TLC

VARIABLES
    field_type,   \* SpecLayout: the codec type name of the field transcribed
    lay_origin,   \* SpecLayout: "value" (encode first) or "wire" (decode first)
    lay_input,    \* SpecLayout: the value or wire image the run started from
    var_name,     \* SpecLayout: the C variable (result->f / value->f), as bytes by significance
    bytes,        \* SpecLayout: the local uint8_t bytes[size], as written to / read from the buffer
    lay_pc,       \* SpecLayout: "start", "encoded", "decoded", "roundtrip"
    bit_field_info, \* SpecBits: the bit-field: container width, start_bit, length
    container,    \* SpecBits: msg-><container>, as the set of its one-bits
    member,       \* SpecBits: msg-><field>, the member the setter also stores into
    bf_value,     \* SpecBits: the argument of the last setter call
    bf_before,    \* SpecBits: the container as the last setter call found it
    bf_got,       \* SpecBits: what the last getter call returned
    bf_calls,     \* SpecBits: setter calls made so far
    ub_shift,     \* SpecBits: what this build makes of a shift by >= the operand's width
    bf_pc,        \* SpecBits: "idle", "set" (setter returned), "got" (getter returned)
    structs,      \* SpecDecode: self.structs, struct name -> its Field list
    input_len,    \* SpecDecode: buf_len(input_buf) of the caller's input buffer
    args_null,    \* SpecDecode: the caller passed a NULL argument
    heap,         \* SpecDecode: the malloc'ed blocks not yet freed
    allocated,    \* SpecDecode: blocks malloc'ed so far (block ids are 1..allocated)
    stack,        \* SpecDecode: the C call stack of emitted functions, innermost last
    call_ret,     \* SpecDecode: what the call that returned last handed its caller
    value_out,    \* SpecDecode: the block the caller's *value was set to (0: never written)
    remaining_input_buf, \* SpecDecode: the caller's remaining_input_buf
    ret,          \* SpecDecode: what the caller's <R>_decode call returned ("none": running)
    ret_at,       \* SpecDecode: the field index the outermost call returned at
    bad_free,     \* SpecDecode: free() was handed an address malloc did not return, or twice
    output_len,   \* SpecDecode: buf_len(output_buf) of the caller's output buffer
    output,       \* SpecDecode: output_buf, byte position -> the write that set it last (0: none)
    remaining_output_buf, \* SpecDecode: the caller's remaining_output_buf
    enc_ret,      \* SpecDecode: what the caller's <R>_encode call returned ("off": not called)
    rd_log,       \* SpecDecode: the field accesses <R>_decode made, in order
    wr_log,       \* SpecDecode: the field accesses <R>_encode made, in order
    child_err,    \* SpecDecode: the first non-OK code a hook or a nested call handed its caller
    buf_fail,     \* SpecDecode: a byte-buffer operation reported something other than BUF_OK
    definitions,  \* SpecCompile: ast['definitions'], the Definitions of one schema file
    types,        \* SpecCompile: CodeGenerator.types, the registry name -> type_def
    generated,    \* SpecCompile: the dict process_ast builds: messages and constants
    message_type_counter, \* SpecCompile: CodeGenerator.message_type_counter
    def_i,        \* SpecCompile: the definition the generating loop of process_ast is at
    header_file,  \* SpecCompile: what was written to <stem>.h (Unset: nothing)
    comp_pc,      \* SpecCompile: "parsed", "registered", "generated", "written"
    con_in,       \* SpecConcurrent: per thread, the call it makes and the length of its buffer
    thr,          \* SpecConcurrent: per thread, where its call is and what it returned
    mem,          \* SpecConcurrent: the memory of the process, location -> value
    input_files,  \* SpecDriver: args.input_files, each by what becomes of it
    file_i,       \* SpecDriver: the file the loop of main is at
    diagnostics,  \* SpecDriver: the files an 'Error: ...' line was printed for, in order
    written,      \* SpecDriver: the files a header was written for, in order
    decls,        \* SpecFields: the member declarations the struct body is written from
    struct_body,  \* SpecFields: the text between the braces of the struct
    parsed_fields, \* SpecFields: the Fields parse_struct_fields returned
    emitted,      \* SpecFields: per Field, the branch generate_implementation took
    ps_pc,        \* SpecFields: "body", "parsed", "generated"
    pdl_schema,   \* SpecPdl: the def statements the schema text is written from
    content,      \* SpecPdl: the schema text handed to parse_file, as tokens
    results,      \* SpecPdl: what parse_file returned, or that it raised
    pdl_pc,       \* SpecPdl: "start", "parsed"
    exit_status   \* SpecDriver: the exit status of the process, "0" .. ("running": main has not returned)

layVars == <<field_type, lay_origin, lay_input, var_name, bytes, lay_pc>>

bitVars == <<bit_field_info, container, member, bf_value, bf_before, bf_got,
             bf_calls, ub_shift, bf_pc>>

\* the output side of <R>_encode
encBufVars == <<output_len, output, remaining_output_buf, wr_log>>

decVars == <<structs, input_len, args_null, heap, allocated, stack, call_ret,
             value_out, remaining_input_buf, ret, ret_at, bad_free,
             encBufVars, enc_ret, rd_log, child_err, buf_fail>>

compVars == <<definitions, types, generated, message_type_counter, def_i,
              header_file, comp_pc>>

conVars == <<con_in, thr, mem>>

\* the state of the runs added to the first four
drvVars == <<input_files, file_i, diagnostics, written, exit_status>>

psVars == <<decls, struct_body, parsed_fields, emitted, ps_pc>>

pdlVars == <<pdl_schema, content, results, pdl_pc>>

toolVars == <<conVars, drvVars, psVars, pdlVars>>

vars == <<layVars, bitVars, decVars, compVars, toolVars>>

-----------------------------------------------------------------------------
(* Bounds *)

\* how many of SampleBytes a 1- or 2-byte value draws its bytes from
NumVals2 == 7
\* how many of SampleBytes a 4-byte value draws its bytes from
NumVals4 == 4
\* an 8-byte value is a run of SampleBytes: NumVals8 start places, steps 0..NumVals8
NumVals8 == 5

\* most fields of the outer record
MaxFields == 2
\* most fields of the nested record
MaxInnerFields == 1
\* longest input buffer
MaxBufLen == 3
\* the element count of the array fields
ArraySize == 2

\* setter calls in one run of the bit-field accessors
MaxSetCalls == 1

\* most definitions of a schema file
MaxDefs == 2

\* byte values the inputs are built from; the first four are the bytes of 0x12345678
SampleBytes == <<18, 52, 86, 120, 128, 255, 0, 1, 127, 63>>

Min(a, b) == IF a < b THEN a ELSE b

-----------------------------------------------------------------------------
(* Arithmetic on bytes and bit vectors *)

RECURSIVE Pow2(_)
Pow2(n) == IF n = 0 THEN 1 ELSE 2 * Pow2(n - 1)

\* bit j (0 = least significant) of the byte b
BitOfByte(b, j) == (b \div Pow2(j)) % 2

\* a | b on bytes
ByteOr(a, b) ==
    LET bit(j) == IF BitOfByte(a, j) = 1 \/ BitOfByte(b, j) = 1 THEN Pow2(j) ELSE 0
    IN  bit(0) + bit(1) + bit(2) + bit(3) + bit(4) + bit(5) + bit(6) + bit(7)

RECURSIVE OrAll(_, _)
\* the bitwise OR of the bytes f[i], i in S
OrAll(f, S) ==
    IF S = {} THEN 0
    ELSE LET i == CHOOSE x \in S : TRUE IN ByteOr(f[i], OrAll(f, S \ {i}))

\* the one-bits of a value held as n bytes by significance
BitsOf(v, n) == {j \in 0..(8 * n - 1) : BitOfByte(v[j \div 8], j % 8) = 1}

\* the n bytes, by significance, of the value whose one-bits are B
BytesOfBits(B, n) ==
    [k \in 0..(n - 1) |->
        LET bit(j) == IF (8 * k + j) \in B THEN Pow2(j) ELSE 0
        IN  bit(0) + bit(1) + bit(2) + bit(3) + bit(4) + bit(5) + bit(6) + bit(7)]

\* B + 1 modulo 2^w, on one-bit sets
IncBits(B, w) == {j \in 0..(w - 1) : (j \in B) # (\A i \in 0..(j - 1) : i \in B)}

\* -B modulo 2^w (two's complement)
NegBits(B, w) == IncBits((0..(w - 1)) \ B, w)

MaxOf(S) == CHOOSE x \in S : \A y \in S : y <= x

-----------------------------------------------------------------------------
(* The type tables of CodeGenerator.__init__ *)

\* the keys of self.codec_types, each split into its base and its byte-order suffix
TypeNames ==
    { <<"u8", "">>, <<"i8", "">>,
      <<"u16", "_be">>, <<"i16", "_be">>, <<"u16", "_le">>, <<"i16", "_le">>,
      <<"u32", "_be">>, <<"i32", "_be">>, <<"u32", "_be_bs">>, <<"i32", "_be_bs">>,
      <<"u32", "_le">>, <<"i32", "_le">>, <<"u32", "_le_bs">>, <<"i32", "_le_bs">>,
      <<"u64", "_be">>, <<"i64", "_be">>, <<"u64", "_be_bs">>, <<"i64", "_be_bs">>,
      <<"u64", "_le">>, <<"i64", "_le">>, <<"u64", "_le_bs">>, <<"i64", "_le_bs">>,
      <<"f32", "_be">>, <<"f32", "_be_bs">>, <<"f32", "_le">>, <<"f32", "_le_bs">>,
      <<"f64", "_be">>, <<"f64", "_be_bs">>, <<"f64", "_le">>, <<"f64", "_le_bs">> }

Base(t) == t[1]
Suffix(t) == t[2]

\* self.type_sizes
type_sizes(t) ==
    CASE Base(t) \in {"u8", "i8"} -> 1
      [] Base(t) \in {"u16", "i16"} -> 2
      [] Base(t) \in {"u32", "i32", "f32"} -> 4
      [] Base(t) \in {"u64", "i64", "f64"} -> 8

\* the substring tests of the generator: '_be' in field_type, '_bs' in field_type, ...
HasBe(t) == Suffix(t) \in {"_be", "_be_bs"}
HasLe(t) == Suffix(t) \in {"_le", "_le_bs"}
HasBs(t) == Suffix(t) \in {"_be_bs", "_le_bs"}
HasBeBs(t) == Suffix(t) = "_be_bs"
HasLeBs(t) == Suffix(t) = "_le_bs"
\* 'f32' in field_type or 'f64' in field_type
IsFloat(t) == Base(t) \in {"f32", "f64"}

IntegerTypes == {t \in TypeNames : ~IsFloat(t)}
FloatTypes == {t \in TypeNames : IsFloat(t)}

-----------------------------------------------------------------------------
(* get_encode_code: the assignments bytes[idx] = (v >> shift) & 0xFF, in    *)
(* the order they are emitted, as pairs <<idx, shift>>                      *)

\* byte_order of the 8-byte big-endian byte-swapped branch
byte_order_be_bs == <<6, 7, 4, 5, 2, 3, 0, 1>>
\* byte_order of the 8-byte little-endian byte-swapped branch
byte_order_le_bs == <<1, 0, 3, 2, 5, 4, 7, 6>>

\* EncodeAssignBe with the shifts of the two low bytes exchanged
EncodeAssignBeSwapped(size) ==
    CASE size = 2 -> << <<0, 0>>, <<1, 8>> >>
      [] size = 4 -> << <<0, 24>>, <<1, 16>>, <<2, 0>>, <<3, 8>> >>
      [] size = 8 -> [i \in 1..8 |-> <<i - 1, IF i = 7 THEN 0 ELSE IF i = 8 THEN 8 ELSE (7 - (i - 1)) * 8>>]

EncodeAssignBe(size) ==
    CASE size = 2 -> << <<0, 8>>, <<1, 0>> >>
      [] size = 4 -> << <<0, 24>>, <<1, 16>>, <<2, 8>>, <<3, 0>> >>
      [] size = 8 -> [i \in 1..8 |-> <<i - 1, (7 - (i - 1)) * 8>>]

EncodeAssignLe(size) ==
    CASE size = 2 -> << <<0, 0>>, <<1, 8>> >>
      [] size = 4 -> << <<0, 0>>, <<1, 8>>, <<2, 16>>, <<3, 24>> >>
      [] size = 8 -> [i \in 1..8 |-> <<i - 1, (i - 1) * 8>>]

EncodeAssignBeBs(size) ==
    CASE size = 4 -> << <<2, 24>>, <<3, 16>>, <<1, 8>>, <<0, 0>> >>
      [] size = 8 -> [i \in 1..8 |-> <<byte_order_be_bs[i], (7 - (i - 1)) * 8>>]
      [] OTHER -> << >>

EncodeAssignLeBs(size) ==
    CASE size = 4 -> << <<1, 0>>, <<0, 8>>, <<3, 16>>, <<2, 24>> >>
      [] size = 8 -> [i \in 1..8 |-> <<byte_order_le_bs[i], (i - 1) * 8>>]
      [] OTHER -> << >>

\* the if / elif chain that picks the byte order of a multi-byte type
EncodeAssign(t) ==
    IF HasBe(t) /\ ~HasBs(t) THEN EncodeAssignBe(type_sizes(t))
    ELSE IF HasLe(t) /\ ~HasBs(t) THEN EncodeAssignLe(type_sizes(t))
    ELSE IF HasBeBs(t) THEN EncodeAssignBeBs(type_sizes(t))
    ELSE IF HasLeBs(t) THEN EncodeAssignLeBs(type_sizes(t))
    ELSE << >>

\* the byte (v >> shift) & 0xFF of a value held as bytes by significance
ShiftMaskByte(v, shift) == v[shift \div 8]

\* the wire bytes get_encode_code's emitted block hands to buf_set_u8, for the
\* value v (for a float: the bit pattern u.i of u.f = v).  A bytes[] element
\* the block never assigns stays what it was: "uninit".
get_encode_code(t, v) ==
    IF type_sizes(t) = 1
    THEN [i \in {0} |-> v[0]]
    ELSE LET asg == EncodeAssign(t)
         IN  [i \in 0..(type_sizes(t) - 1) |->
                LET js == {j \in DOMAIN asg : asg[j][1] = i}
                IN  IF js = {} THEN "uninit"
                    ELSE ShiftMaskByte(v, asg[MaxOf(js)][2])]

-----------------------------------------------------------------------------
(* get_decode_code: the terms (bytes[idx] << shift) OR-ed together, as pairs *)
(* <<idx, shift>>                                                           *)

DecodeTermsBe(size) ==
    CASE size = 2 -> << <<0, 8>>, <<1, 0>> >>
      [] size = 4 -> << <<0, 24>>, <<1, 16>>, <<2, 8>>, <<3, 0>> >>
      [] size = 8 -> << <<0, 56>>, <<1, 48>>, <<2, 40>>, <<3, 32>>,
                        <<4, 24>>, <<5, 16>>, <<6, 8>>, <<7, 0>> >>

DecodeTermsLe(size) ==
    CASE size = 2 -> << <<0, 0>>, <<1, 8>> >>
      [] size = 4 -> << <<0, 0>>, <<1, 8>>, <<2, 16>>, <<3, 24>> >>
      [] size = 8 -> << <<0, 0>>, <<1, 8>>, <<2, 16>>, <<3, 24>>,
                        <<4, 32>>, <<5, 40>>, <<6, 48>>, <<7, 56>> >>

DecodeTermsBeBs(size) ==
    CASE size = 4 -> << <<2, 24>>, <<3, 16>>, <<1, 8>>, <<0, 0>> >>
      [] size = 8 -> << <<6, 56>>, <<7, 48>>, <<4, 40>>, <<5, 32>>,
                        <<2, 24>>, <<3, 16>>, <<0, 8>>, <<1, 0>> >>
      [] OTHER -> << >>

\* DecodeTermsLeBs reading the bytes of each word in wire order
DecodeTermsLeBsUnswapped(size) ==
    CASE size = 4 -> << <<0, 0>>, <<1, 8>>, <<2, 16>>, <<3, 24>> >>
      [] size = 8 -> << <<0, 0>>, <<1, 8>>, <<2, 16>>, <<3, 24>>,
                        <<4, 32>>, <<5, 40>>, <<6, 48>>, <<7, 56>> >>
      [] OTHER -> << >>

DecodeTermsLeBs(size) ==
    CASE size = 4 -> << <<1, 0>>, <<0, 8>>, <<3, 16>>, <<2, 24>> >>
      [] size = 8 -> << <<1, 0>>, <<0, 8>>, <<3, 16>>, <<2, 24>>,
                        <<5, 32>>, <<4, 40>>, <<7, 48>>, <<6, 56>> >>
      [] OTHER -> << >>

DecodeTerms(t) ==
    IF HasBe(t) /\ ~HasBs(t) THEN DecodeTermsBe(type_sizes(t))
    ELSE IF HasLe(t) /\ ~HasBs(t) THEN DecodeTermsLe(type_sizes(t))
    ELSE IF HasBeBs(t) THEN DecodeTermsBeBs(type_sizes(t))
    ELSE IF HasLeBs(t) THEN DecodeTermsLeBs(type_sizes(t))
    ELSE << >>

\* the integer the OR of the shifted bytes assembles, as bytes by significance
\* (a 4-byte expression is an int: bytes[i] << 24 wraps, the bit pattern stays)
AssembleInt(t, b) ==
    LET terms == DecodeTerms(t)
    IN  [k \in 0..(type_sizes(t) - 1) |->
            OrAll([j \in DOMAIN terms |-> b[terms[j][1]]],
                  {j \in DOMAIN terms : terms[j][2] = 8 * k})]

\* C's conversion of a w-bit integer (one-bits B; two's complement when
\* signed) to the IEEE-754 binary format with expBits exponent and manBits
\* fraction bits, w = 1 + expBits + manBits, rounding to nearest, ties to even:
\* the one-bits of the float's representation
ConvertIntToFloat(B, w, signed, expBits, manBits) ==
    LET neg  == signed /\ (w - 1) \in B
        mag  == IF neg THEN NegBits(B, w) ELSE B
    IN  IF mag = {} THEN {}
        ELSE
        LET p     == MaxOf(mag)
            bias  == Pow2(expBits - 1) - 1
            e     == p + bias
            frac  == {i \in 0..(manBits - 1) : (p - manBits + i) \in mag}
            guard == (p - manBits - 1) \in mag
            stick == \E j \in mag : j < p - manBits - 1
            up    == guard /\ (stick \/ 0 \in frac)
            expo  == {manBits + i : i \in {i \in 0..(expBits - 1) : (e \div Pow2(i)) % 2 = 1}}
            em    == IF up THEN IncBits(frac \cup expo, w - 1) ELSE frac \cup expo
        IN  em \cup (IF neg THEN {w - 1} ELSE {})

\* the value get_decode_code's emitted block leaves in the field for the wire
\* bytes b: the assembled integer is assigned to the field; for a float field
\* that assignment converts the integer (an int for f32, a uint64_t for f64)
\* to the floating type, and the union that follows copies the field's own
\* bits back into it
get_decode_code(t, b) ==
    IF type_sizes(t) = 1
    THEN [i \in {0} |-> b[0]]
    ELSE IF IsFloat(t)
    THEN LET n == type_sizes(t)
             B == BitsOf(AssembleInt(t, b), n)
         IN  IF n = 4
             THEN BytesOfBits(ConvertIntToFloat(B, 32, TRUE, 8, 23), 4)
             ELSE BytesOfBits(ConvertIntToFloat(B, 64, FALSE, 11, 52), 8)
    ELSE AssembleInt(t, b)


-----------------------------------------------------------------------------
(* SpecLayout: one field of one primitive type is encoded and decoded *)

\* "no value yet"
Unset == << >>

\* the byte values a field of n < 8 bytes is built from
ByteChoices(n) ==
    LET k == IF n = 4 THEN NumVals4 ELSE NumVals2
    IN  {SampleBytes[i] : i \in 1..Min(k, Len(SampleBytes))}

\* the values (and the wire images) of n bytes the model runs on: every
\* combination of the chosen bytes, and for 8 bytes the runs of SampleBytes
\* (step 0: one byte repeated; step 1: eight different bytes)
ByteVectors(n) ==
    IF n = 8
    THEN {[k \in 0..7 |-> SampleBytes[((s - 1 + k * d) % Len(SampleBytes)) + 1]] :
              s \in 1..NumVals8, d \in 0..NumVals8}
    ELSE [0..(n - 1) -> ByteChoices(n)]

\* the bit-field accessors are not running
BitsIdle ==
    /\ bit_field_info = Unset
    /\ container = {}
    /\ member = {}
    /\ bf_value = {}
    /\ bf_before = {}
    /\ bf_got = {}
    /\ bf_calls = 0
    /\ ub_shift = "mod"
    /\ bf_pc = "off"

\* no emitted function is running
DecodeIdle ==
    /\ structs = Unset
    /\ input_len = 0
    /\ args_null = FALSE
    /\ heap = {}
    /\ allocated = 0
    /\ stack = << >>
    /\ call_ret = Unset
    /\ value_out = 0
    /\ remaining_input_buf = [set |-> FALSE, start |-> 0, len |-> 0]
    /\ ret = "off"
    /\ ret_at = 0
    /\ bad_free = FALSE
    /\ output_len = 0
    /\ output = << >>
    /\ remaining_output_buf = [set |-> FALSE, start |-> 0, len |-> 0]
    /\ enc_ret = "off"
    /\ rd_log = << >>
    /\ wr_log = << >>
    /\ child_err = "none"
    /\ buf_fail = FALSE

\* the scalar transcription is not running
LayoutIdle ==
    /\ field_type = Unset
    /\ lay_origin = "off"
    /\ lay_input = Unset
    /\ var_name = Unset
    /\ bytes = Unset
    /\ lay_pc = "off"

\* no schema file is being compiled
CompileIdle ==
    /\ definitions = Unset
    /\ types = Unset
    /\ generated = Unset
    /\ message_type_counter = 0
    /\ def_i = 0
    /\ header_file = Unset
    /\ comp_pc = "off"

\* no two calls are running side by side
ConcurrentIdle ==
    /\ con_in = Unset
    /\ thr = Unset
    /\ mem = Unset

\* no driver is running
DriverIdle ==
    /\ input_files = Unset
    /\ file_i = 0
    /\ diagnostics = Unset
    /\ written = Unset
    /\ exit_status = "off"

\* parse_struct_fields is not running
FieldsIdle ==
    /\ decls = Unset
    /\ struct_body = Unset
    /\ parsed_fields = Unset
    /\ emitted = Unset
    /\ ps_pc = "off"

\* parse_file is not running
PdlIdle ==
    /\ pdl_schema = Unset
    /\ content = Unset
    /\ results = Unset
    /\ pdl_pc = "off"

ToolsIdle == ConcurrentIdle /\ DriverIdle /\ FieldsIdle /\ PdlIdle

InitLayout ==
    /\ BitsIdle
    /\ DecodeIdle
    /\ CompileIdle
    /\ ToolsIdle
    /\ field_type \in TypeNames
    /\ lay_origin \in {"value", "wire"}
    /\ lay_input \in ByteVectors(type_sizes(field_type))
    /\ var_name = IF lay_origin = "value" THEN lay_input ELSE Unset
    /\ bytes = IF lay_origin = "wire" THEN lay_input ELSE Unset
    /\ lay_pc = "start"

\* the block emitted by get_encode_code runs on the field: bytes[] is filled
\* from the value and written to the buffer
EncodeField ==
    /\ \/ lay_origin = "value" /\ lay_pc = "start"
       \/ lay_origin = "wire" /\ lay_pc = "decoded"
    /\ bytes' = get_encode_code(field_type, var_name)
    /\ lay_pc' = IF lay_pc = "start" THEN "encoded" ELSE "roundtrip"
    /\ UNCHANGED <<field_type, lay_origin, lay_input, var_name>>
    /\ UNCHANGED <<bitVars, decVars, compVars, toolVars>>

\* the block emitted by get_decode_code runs on the field: bytes[] is read
\* from the buffer and the value is rebuilt
DecodeField ==
    /\ \/ lay_origin = "wire" /\ lay_pc = "start"
       \/ lay_origin = "value" /\ lay_pc = "encoded"
    /\ var_name' = get_decode_code(field_type, bytes)
    /\ lay_pc' = IF lay_pc = "start" THEN "decoded" ELSE "roundtrip"
    /\ UNCHANGED <<field_type, lay_origin, lay_input, bytes>>
    /\ UNCHANGED <<bitVars, decVars, compVars, toolVars>>

NextLayout == EncodeField \/ DecodeField

SpecLayout == InitLayout /\ [][NextLayout]_vars


-----------------------------------------------------------------------------
(* The records generate_implementation emits code for.  A Field is          *)
(* [field_type, array_size, is_pointer] (class Field; array_size 0: None);  *)
(* field_type is a codec type, or <<"struct", S>> for 'struct S'.           *)

MkField(ft, n, ptr) == [field_type |-> ft, array_size |-> n, is_pointer |-> ptr]

\* field.field_type.startswith('struct ')
IsStructField(f) == f.field_type[1] = "struct"
\* field.field_type.replace('struct ', '')
StructTypeOf(f) == f.field_type[2]

\* the fields a nested record is built from: a one-byte scalar, a two-byte
\* scalar, a pointer (externally-owned) field
InnerShapes ==
    { MkField(<<"u8", "">>, 0, FALSE),
      MkField(<<"u16", "_be">>, 0, FALSE),
      MkField(<<"u8", "">>, 0, TRUE) }

\* the fields the outer record is built from: those, an array of scalars, a
\* nested record and an array of nested records
OuterShapes ==
    InnerShapes \cup
    { MkField(<<"u8", "">>, ArraySize, FALSE),
      MkField(<<"struct", "Inner">>, 0, FALSE),
      MkField(<<"struct", "Inner">>, ArraySize, FALSE) }

SeqsUpTo(S, n) == UNION {[1..k -> S] : k \in 1..n}

\* the loop of an array field running once whatever array_size is
ElemCountOne(f) == 1

\* the loop count of a field: array_size, or a single element
ElemCount(f) == IF f.array_size > 0 THEN f.array_size ELSE 1

RECURSIVE SizeOfStruct(_, _)
\* sizeof of one element of the field f (no padding; a pointer is 8 bytes)
SizeOfElem(ss, f) ==
    IF f.is_pointer THEN 8
    ELSE IF IsStructField(f) THEN SizeOfStruct(ss, StructTypeOf(f))
    ELSE type_sizes(f.field_type)

RECURSIVE SumSizes(_, _, _)
\* the size of the first k fields of the field list fs
SumSizes(ss, fs, k) ==
    IF k = 0 THEN 0
    ELSE SumSizes(ss, fs, k - 1) + SizeOfElem(ss, fs[k]) * ElemCount(fs[k])

\* sizeof(struct S) as the header lays the struct out
SizeOfStruct(ss, S) == SumSizes(ss, ss[S], Len(ss[S]))

\* &value->field[idx] for value = addr = <<block, byte offset>> of a struct S
MemberAddr(ss, S, addr, fld, idx) ==
    <<addr[1], addr[2] + SumSizes(ss, ss[S], fld - 1) + idx * SizeOfElem(ss, ss[S][fld])>>

-----------------------------------------------------------------------------
(* The emitted <R>_decode, <R>_encode and <R>_dispose, run on a stack of    *)
(* frames.  A frame: fn ("decode" / "encode" / "dispose"), st (the struct   *)
(* R), pc, fld and idx (the field and array element the generated code is   *)
(* at), offset (the local size_t offset), result (the block malloc          *)
(* returned), rc (the code a failure path returns after its dispose), addr  *)
(* (dispose's value).                                                       *)

CODEC_OK == "CODEC_OK"
CodecErrors == {"CODEC_ERR_OUT_OF_BOUNDS", "CODEC_ERR_NULL_PTR", "CODEC_ERR_NO_MEMORY"}

\* the buf_err_t values the emitted code names
BufErrs == {"BUF_ERR_OUT_OF_BOUNDS", "BUF_ERR_NULL_PTR"}

\* buf_get_u8(dst, input_buf, at): the bounds-checked byte read
buf_get_u8(len, at) == IF at < len THEN "BUF_OK" ELSE "BUF_ERR_OUT_OF_BOUNDS"

\* buf_set_u8(output_buf, at, byte): the bounds-checked byte write
buf_set_u8(len, at) == IF at < len THEN "BUF_OK" ELSE "BUF_ERR_OUT_OF_BOUNDS"

\* buf_from_buf(remaining, input_buf, offset, buf_len(input_buf) - offset)
buf_from_buf(len, offset) == IF offset <= len THEN "BUF_OK" ELSE "BUF_ERR_OUT_OF_BOUNDS"

\* the two ifs under 'if (err != BUF_OK)' with no return ever taken
BufErrReturnIgnored(err) == "fallthrough"

\* the two ifs under 'if (err != BUF_OK)': the code returned, or "fallthrough"
\* when neither matches and execution goes on after the block
BufErrReturn(err) ==
    CASE err = "BUF_ERR_OUT_OF_BOUNDS" -> "CODEC_ERR_OUT_OF_BOUNDS"
      [] err = "BUF_ERR_NULL_PTR" -> "CODEC_ERR_NULL_PTR"
      [] OTHER -> "fallthrough"

\* the emitted scalar block reading size bytes at offset: the first read that
\* fails, if any, decides
ScalarReadResult(len, offset, size) ==
    LET bad == {i \in 0..(size - 1) : buf_get_u8(len, offset + i) # "BUF_OK"}
    IN  IF bad = {} THEN "BUF_OK"
        ELSE buf_get_u8(len, offset + (CHOOSE i \in bad : \A j \in bad : i <= j))

\* the emitted scalar block writing size bytes at offset: the first write that
\* fails, if any, decides
ScalarWriteResult(len, offset, size) ==
    LET bad == {i \in 0..(size - 1) : buf_set_u8(len, offset + i) # "BUF_OK"}
    IN  IF bad = {} THEN "BUF_OK"
        ELSE buf_set_u8(len, offset + (CHOOSE i \in bad : \A j \in bad : i <= j))

\* output_buf once the write loop of the scalar block has run: the bytes
\* before the first failing write are set, tagged with the write's number
ScalarWritten(out, offset, size, tag) ==
    [p \in 1..Len(out) |->
        IF /\ p - 1 >= offset
           /\ p - 1 < offset + size
           /\ \A q \in offset..(p - 1) : buf_set_u8(Len(out), q) = "BUF_OK"
        THEN tag ELSE out[p]]

\* the frame of a call of <R>_decode: size_t offset = 0
DecodeFrame(S) ==
    [fn |-> "decode", st |-> S, pc |-> "entry", fld |-> 1, idx |-> 0, offset |-> 0,
     result |-> 0, rc |-> "none", addr |-> <<0, 0>>]

\* <R>_encode starting one byte into the output buffer
EncodeFrameOffByOne(S) ==
    [fn |-> "encode", st |-> S, pc |-> "entry", fld |-> 1, idx |-> 0, offset |-> 1,
     result |-> 0, rc |-> "none", addr |-> <<0, 0>>]

\* the frame of a call of <R>_encode: size_t offset = 0
EncodeFrame(S) ==
    [fn |-> "encode", st |-> S, pc |-> "entry", fld |-> 1, idx |-> 0, offset |-> 0,
     result |-> 0, rc |-> "none", addr |-> <<0, 0>>]

\* the frame of a call of <R>_dispose(value)
DisposeFrame(S, addr) ==
    [fn |-> "dispose", st |-> S, pc |-> "dentry", fld |-> 1, idx |-> 0, offset |-> 0,
     result |-> 0, rc |-> "none", addr |-> addr]

Top == stack[Len(stack)]
TopFields == structs[Top.st]
TopField == TopFields[Top.fld]
Outermost == Len(stack) = 1

\* one access the generated code makes to a field (element): a scalar block
\* at the local offset, or the call of a pointer field's hook
LogEntry(kind, size) ==
    [lvl |-> Len(stack), st |-> Top.st, fld |-> Top.fld, idx |-> Top.idx,
     kind |-> kind, at |-> IF kind = "scalar" THEN Top.offset ELSE 0, size |-> size]

\* the frame once the current element is done: the next element, or the next field
Advance(fr, f) ==
    IF fr.idx + 1 < ElemCount(f) THEN [fr EXCEPT !.idx = fr.idx + 1]
    ELSE [fr EXCEPT !.fld = fr.fld + 1, !.idx = 0]

SetTop(fr) == [stack EXCEPT ![Len(stack)] = fr]
Pop == SubSeq(stack, 1, Len(stack) - 1)

\* what a return leaves alone when none is made
retVars == <<call_ret, ret, ret_at, value_out, enc_ret>>

\* 'return rc;' of the innermost function, ptr being what it stored through
\* its value argument (0: nothing)
ReturnFrom(rc, ptr) ==
    /\ stack' = Pop
    /\ call_ret' = [rc |-> rc, ptr |-> ptr]
    /\ IF Outermost /\ Top.fn = "decode"
       THEN /\ ret' = rc
            /\ ret_at' = Top.fld
            /\ value_out' = IF ptr # 0 THEN ptr ELSE value_out
            /\ UNCHANGED enc_ret
       ELSE IF Outermost /\ Top.fn = "encode"
       THEN /\ enc_ret' = rc
            /\ UNCHANGED <<ret, ret_at, value_out>>
       ELSE UNCHANGED <<ret, ret_at, value_out, enc_ret>>

\* a hook or a nested function handed the code c to the function that called it
NoteChildErr(c) ==
    child_err' = IF child_err = "none" /\ c \in CodecErrors THEN c ELSE child_err

\* 'return rc;' seen from the caller as well
Return(rc, ptr) ==
    /\ ReturnFrom(rc, ptr)
    /\ IF Outermost THEN UNCHANGED child_err ELSE NoteChildErr(rc)

\* the failure path '<R>_dispose(result); return rc;': the call is made now,
\* the return follows when it comes back
CallDisposeThenReturn(rc) ==
    /\ stack' = Append(SetTop([Top EXCEPT !.pc = "cleanup", !.rc = rc]),
                       DisposeFrame(Top.st, <<Top.result, 0>>))
    /\ UNCHANGED retVars

InitDecode ==
    /\ LayoutIdle
    /\ BitsIdle
    /\ CompileIdle
    /\ ToolsIdle
    /\ \E inner \in SeqsUpTo(InnerShapes, MaxInnerFields),
          outer \in SeqsUpTo(OuterShapes, MaxFields) :
          structs = [S \in {"Inner", "Outer"} |-> IF S = "Inner" THEN inner ELSE outer]
    /\ input_len \in 0..MaxBufLen
    /\ args_null \in BOOLEAN
    /\ heap = {}
    /\ allocated = 0
    /\ stack = <<DecodeFrame("Outer")>>
    /\ call_ret = [rc |-> "none", ptr |-> 0]
    /\ value_out = 0
    /\ remaining_input_buf = [set |-> FALSE, start |-> 0, len |-> 0]
    /\ ret = "none"
    /\ ret_at = 0
    /\ bad_free = FALSE
    /\ output_len = 0
    /\ output = << >>
    /\ remaining_output_buf = [set |-> FALSE, start |-> 0, len |-> 0]
    /\ enc_ret = "off"
    /\ rd_log = << >>
    /\ wr_log = << >>
    /\ child_err = "none"
    /\ buf_fail = FALSE

Running(fn, pc) == stack # << >> /\ Top.fn = fn /\ Top.pc = pc

\* DecodeEntry storing the fresh record through value as soon as it is allocated
DecodeEntryStoresValue ==
    /\ Running("decode", "entry")
    /\ IF Outermost /\ args_null
       THEN /\ Return("CODEC_ERR_NULL_PTR", 0)
            /\ UNCHANGED <<heap, allocated>>
       ELSE \E malloc_ok \in BOOLEAN :
               IF malloc_ok
               THEN /\ allocated' = allocated + 1
                    /\ heap' = heap \cup {allocated + 1}
                    /\ stack' = SetTop([Top EXCEPT !.pc = "field",
                                                   !.result = allocated + 1])
                    /\ value_out' = IF Outermost THEN allocated + 1 ELSE value_out
                    /\ UNCHANGED <<call_ret, ret, ret_at, enc_ret, child_err>>
               ELSE /\ Return("CODEC_ERR_NO_MEMORY", 0)
                    /\ UNCHANGED <<heap, allocated>>
    /\ UNCHANGED <<structs, input_len, args_null, remaining_input_buf, bad_free,
                   rd_log, buf_fail>>
    /\ UNCHANGED <<layVars, bitVars, encBufVars, compVars, toolVars>>

\* the head of <R>_decode: the NULL checks, malloc and memset, offset = 0
DecodeEntry ==
    /\ Running("decode", "entry")
    /\ IF Outermost /\ args_null
       THEN /\ Return("CODEC_ERR_NULL_PTR", 0)
            /\ UNCHANGED <<heap, allocated>>
       ELSE \E malloc_ok \in BOOLEAN :
               IF malloc_ok
               THEN /\ allocated' = allocated + 1
                    /\ heap' = heap \cup {allocated + 1}
                    /\ stack' = SetTop([Top EXCEPT !.pc = "field",
                                                   !.result = allocated + 1])
                    /\ UNCHANGED <<retVars, child_err>>
               ELSE /\ Return("CODEC_ERR_NO_MEMORY", 0)
                    /\ UNCHANGED <<heap, allocated>>
    /\ UNCHANGED <<structs, input_len, args_null, remaining_input_buf, bad_free,
                   rd_log, buf_fail>>
    /\ UNCHANGED <<layVars, bitVars, encBufVars, compVars, toolVars>>

\* a scalar field, or one element of an array of scalars: the block of
\* get_decode_code, which returns straight out of <R>_decode when a read fails
DecodeScalar ==
    /\ Running("decode", "field")
    /\ Top.fld <= Len(TopFields)
    /\ ~TopField.is_pointer /\ ~IsStructField(TopField)
    /\ LET size == type_sizes(TopField.field_type)
           err  == ScalarReadResult(input_len, Top.offset, size)
       IN  /\ rd_log' = Append(rd_log, LogEntry("scalar", size))
           /\ buf_fail' = (buf_fail \/ err # "BUF_OK")
           /\ IF err = "BUF_OK" \/ BufErrReturn(err) = "fallthrough"
              THEN /\ stack' = SetTop([Advance(Top, TopField) EXCEPT
                                           !.offset = Top.offset + size])
                   /\ UNCHANGED <<retVars, child_err>>
              ELSE Return(BufErrReturn(err), 0)
    /\ UNCHANGED <<structs, input_len, args_null, heap, allocated,
                   remaining_input_buf, bad_free>>
    /\ UNCHANGED <<layVars, bitVars, encBufVars, compVars, toolVars>>

\* a pointer field: the user-defined <R>_<field>_decode hook is called
DecodePointer ==
    /\ Running("decode", "field")
    /\ Top.fld <= Len(TopFields)
    /\ TopField.is_pointer
    /\ rd_log' = Append(rd_log, LogEntry("hook", 0))
    /\ \E err \in {CODEC_OK} \cup CodecErrors :
          IF err = CODEC_OK
          THEN /\ stack' = SetTop([Top EXCEPT !.fld = Top.fld + 1, !.idx = 0])
               /\ UNCHANGED <<retVars, child_err>>
          ELSE /\ CallDisposeThenReturn(err)
               /\ NoteChildErr(err)
    /\ UNCHANGED <<structs, input_len, args_null, heap, allocated,
                   remaining_input_buf, bad_free, buf_fail>>
    /\ UNCHANGED <<layVars, bitVars, encBufVars, compVars, toolVars>>

\* an embedded struct field or array element: <T>_decode(&ptr,
\* remaining_input_buf, input_buf) is called
DecodeNestedCall ==
    /\ Running("decode", "field")
    /\ Top.fld <= Len(TopFields)
    /\ ~TopField.is_pointer /\ IsStructField(TopField)
    /\ stack' = Append(SetTop([Top EXCEPT !.pc = "called"]),
                       DecodeFrame(StructTypeOf(TopField)))
    /\ UNCHANGED <<structs, input_len, args_null, heap, allocated, retVars,
                   remaining_input_buf, bad_free, rd_log, child_err, buf_fail>>
    /\ UNCHANGED <<layVars, bitVars, encBufVars, compVars, toolVars>>

\* DecodeNestedReturn handing its caller CODEC_ERR_NULL_PTR for every failure
\* of the nested call
DecodeNestedReturnMapped ==
    /\ Running("decode", "called")
    /\ IF call_ret.rc # CODEC_OK
       THEN /\ CallDisposeThenReturn("CODEC_ERR_NULL_PTR")
            /\ UNCHANGED heap
       ELSE /\ heap' = heap \ {call_ret.ptr}
            /\ stack' = SetTop([Advance(Top, TopField) EXCEPT !.pc = "field"])
            /\ UNCHANGED retVars
    /\ UNCHANGED <<structs, input_len, args_null, allocated, remaining_input_buf,
                   bad_free, rd_log, child_err, buf_fail>>
    /\ UNCHANGED <<layVars, bitVars, encBufVars, compVars, toolVars>>

\* <T>_decode came back: on failure dispose and return its code; otherwise
\* result->field = *ptr; free(ptr);
DecodeNestedReturn ==
    /\ Running("decode", "called")
    /\ IF call_ret.rc # CODEC_OK
       THEN /\ CallDisposeThenReturn(call_ret.rc)
            /\ UNCHANGED heap
       ELSE /\ heap' = heap \ {call_ret.ptr}
            /\ stack' = SetTop([Advance(Top, TopField) EXCEPT !.pc = "field"])
            /\ UNCHANGED retVars
    /\ UNCHANGED <<structs, input_len, args_null, allocated, remaining_input_buf,
                   bad_free, rd_log, child_err, buf_fail>>
    /\ UNCHANGED <<layVars, bitVars, encBufVars, compVars, toolVars>>

\* 'return <code>;' once the <R>_dispose(result) of a failure path is back;
\* when neither 'if' of the buf_from_buf block matched there is no return and
\* the function runs on to '*value = result; return CODEC_OK;'
DecodeCleanupReturn ==
    /\ Running("decode", "cleanup")
    /\ IF Top.rc = "fallthrough"
       THEN Return(CODEC_OK, Top.result)
       ELSE Return(Top.rc, 0)
    /\ UNCHANGED <<structs, input_len, args_null, heap, allocated,
                   remaining_input_buf, bad_free, rd_log, buf_fail>>
    /\ UNCHANGED <<layVars, bitVars, encBufVars, compVars, toolVars>>

\* DecodeFinish calling <R>_dispose(result) before '*value = result;'
DecodeFinishDisposing ==
    /\ Running("decode", "field")
    /\ Top.fld > Len(TopFields)
    /\ remaining_input_buf' = [set |-> TRUE, start |-> Top.offset,
                               len |-> input_len - Top.offset]
    /\ CallDisposeThenReturn("fallthrough")
    /\ UNCHANGED <<structs, input_len, args_null, heap, allocated, bad_free, rd_log,
                   child_err, buf_fail>>
    /\ UNCHANGED <<layVars, bitVars, encBufVars, compVars, toolVars>>

\* the tail of <R>_decode: buf_from_buf sets the remaining buffer, then
\* *value = result; return CODEC_OK;
DecodeFinish ==
    /\ Running("decode", "field")
    /\ Top.fld > Len(TopFields)
    /\ LET err == buf_from_buf(input_len, Top.offset)
       IN  /\ buf_fail' = (buf_fail \/ err # "BUF_OK")
           /\ IF err = "BUF_OK"
              THEN /\ remaining_input_buf' =
                         [set |-> TRUE, start |-> Top.offset,
                          len |-> input_len - Top.offset]
                   /\ Return(CODEC_OK, Top.result)
              ELSE /\ CallDisposeThenReturn(BufErrReturn(err))
                   /\ UNCHANGED <<remaining_input_buf, child_err>>
    /\ UNCHANGED <<structs, input_len, args_null, heap, allocated, bad_free, rd_log>>
    /\ UNCHANGED <<layVars, bitVars, encBufVars, compVars, toolVars>>

\* DisposeEntry without the 'if (!value) return;'
DisposeEntryUnchecked ==
    /\ Running("dispose", "dentry")
    /\ stack' = SetTop([Top EXCEPT !.pc = "dfield"])
    /\ UNCHANGED <<retVars, child_err>>
    /\ UNCHANGED <<structs, input_len, args_null, heap, allocated,
                   remaining_input_buf, bad_free, rd_log, buf_fail>>
    /\ UNCHANGED <<layVars, bitVars, encBufVars, compVars, toolVars>>

\* the head of <R>_dispose: a NULL value is logged and nothing else happens
DisposeEntry ==
    /\ Running("dispose", "dentry")
    /\ IF Top.addr[1] = 0
       THEN Return("void", 0)
       ELSE /\ stack' = SetTop([Top EXCEPT !.pc = "dfield"])
            /\ UNCHANGED <<retVars, child_err>>
    /\ UNCHANGED <<structs, input_len, args_null, heap, allocated,
                   remaining_input_buf, bad_free, rd_log, buf_fail>>
    /\ UNCHANGED <<layVars, bitVars, encBufVars, compVars, toolVars>>

\* <R>_dispose at a field: the <R>_<field>_dispose hook for a pointer field,
\* <T>_dispose(&value->field[i]) for an embedded struct, nothing for a scalar
DisposeField ==
    /\ Running("dispose", "dfield")
    /\ Top.fld <= Len(TopFields)
    /\ IF ~TopField.is_pointer /\ IsStructField(TopField)
       THEN stack' = Append(SetTop(Advance(Top, TopField)),
                            DisposeFrame(StructTypeOf(TopField),
                                MemberAddr(structs, Top.st, Top.addr, Top.fld, Top.idx)))
       ELSE stack' = SetTop([Top EXCEPT !.fld = Top.fld + 1, !.idx = 0])
    /\ UNCHANGED <<structs, input_len, args_null, heap, allocated, retVars,
                   remaining_input_buf, bad_free, rd_log, child_err, buf_fail>>
    /\ UNCHANGED <<layVars, bitVars, encBufVars, compVars, toolVars>>

\* the tail of <R>_dispose: free(value).  Freeing an address malloc did not
\* return, or a block already freed, is undefined: the allocator aborts the
\* process or the call goes unnoticed
DisposeFree ==
    /\ Running("dispose", "dfield")
    /\ Top.fld > Len(TopFields)
    /\ IF Top.addr[2] = 0 /\ Top.addr[1] \in heap
       THEN /\ heap' = heap \ {Top.addr[1]}
            /\ Return("void", 0)
            /\ UNCHANGED bad_free
       ELSE /\ bad_free' = TRUE
            /\ UNCHANGED heap
            /\ \E aborts \in BOOLEAN :
                  IF aborts
                  THEN /\ stack' = << >>
                       /\ ret' = "aborted"
                       /\ ret_at' = stack[1].fld
                       /\ UNCHANGED <<call_ret, value_out, enc_ret, child_err>>
                  ELSE Return("void", 0)
    /\ UNCHANGED <<structs, input_len, args_null, allocated, remaining_input_buf,
                   rd_log, buf_fail>>
    /\ UNCHANGED <<layVars, bitVars, encBufVars, compVars, toolVars>>

\* the caller encodes the record it decoded: <R>_encode(&remaining, output_buf,
\* value) on an output buffer of some length, zero-filled
EncodeCall ==
    /\ stack = << >>
    /\ ret = CODEC_OK
    /\ enc_ret = "off"
    /\ args_null' \in BOOLEAN
    /\ output_len' \in 0..MaxBufLen
    /\ output' = [p \in 1..output_len' |-> 0]
    /\ enc_ret' = "none"
    /\ stack' = <<EncodeFrame("Outer")>>
    /\ UNCHANGED <<structs, input_len, heap, allocated, call_ret, value_out,
                   remaining_input_buf, ret, ret_at, bad_free,
                   remaining_output_buf, wr_log, rd_log, child_err, buf_fail>>
    /\ UNCHANGED <<layVars, bitVars, compVars, toolVars>>

\* the head of <R>_encode: the NULL checks, offset = 0
EncodeEntry ==
    /\ Running("encode", "entry")
    /\ IF Outermost /\ args_null
       THEN Return("CODEC_ERR_NULL_PTR", 0)
       ELSE /\ stack' = SetTop([Top EXCEPT !.pc = "field"])
            /\ UNCHANGED <<retVars, child_err>>
    /\ UNCHANGED <<structs, input_len, args_null, heap, allocated,
                   remaining_input_buf, bad_free, rd_log, buf_fail>>
    /\ UNCHANGED <<layVars, bitVars, encBufVars, compVars, toolVars>>

\* EncodeScalar going on to the next field whatever buf_set_u8 reported
EncodeScalarIgnoringErrors ==
    /\ Running("encode", "field")
    /\ Top.fld <= Len(TopFields)
    /\ ~TopField.is_pointer /\ ~IsStructField(TopField)
    /\ LET size == type_sizes(TopField.field_type)
           err  == ScalarWriteResult(output_len, Top.offset, size)
       IN  /\ wr_log' = Append(wr_log, LogEntry("scalar", size))
           /\ output' = ScalarWritten(output, Top.offset, size, Len(wr_log) + 1)
           /\ buf_fail' = (buf_fail \/ err # "BUF_OK")
           /\ stack' = SetTop([Advance(Top, TopField) EXCEPT
                                   !.offset = Top.offset + size])
           /\ UNCHANGED <<retVars, child_err>>
    /\ UNCHANGED <<structs, input_len, args_null, heap, allocated,
                   remaining_input_buf, bad_free, rd_log>>
    /\ UNCHANGED <<output_len, remaining_output_buf>>
    /\ UNCHANGED <<layVars, bitVars, compVars, toolVars>>

\* a scalar field, or one element of an array of scalars: the block of
\* get_encode_code, which returns straight out of <R>_encode when a write fails
EncodeScalar ==
    /\ Running("encode", "field")
    /\ Top.fld <= Len(TopFields)
    /\ ~TopField.is_pointer /\ ~IsStructField(TopField)
    /\ LET size == type_sizes(TopField.field_type)
           err  == ScalarWriteResult(output_len, Top.offset, size)
       IN  /\ wr_log' = Append(wr_log, LogEntry("scalar", size))
           /\ output' = ScalarWritten(output, Top.offset, size, Len(wr_log) + 1)
           /\ buf_fail' = (buf_fail \/ err # "BUF_OK")
           /\ IF err = "BUF_OK" \/ BufErrReturn(err) = "fallthrough"
              THEN /\ stack' = SetTop([Advance(Top, TopField) EXCEPT
                                           !.offset = Top.offset + size])
                   /\ UNCHANGED <<retVars, child_err>>
              ELSE Return(BufErrReturn(err), 0)
    /\ UNCHANGED <<structs, input_len, args_null, heap, allocated,
                   remaining_input_buf, bad_free, rd_log>>
    /\ UNCHANGED <<output_len, remaining_output_buf>>
    /\ UNCHANGED <<layVars, bitVars, compVars, toolVars>>

\* a pointer field: the user-defined <R>_<field>_encode hook is called
EncodePointer ==
    /\ Running("encode", "field")
    /\ Top.fld <= Len(TopFields)
    /\ TopField.is_pointer
    /\ wr_log' = Append(wr_log, LogEntry("hook", 0))
    /\ \E err \in {CODEC_OK} \cup CodecErrors :
          IF err = CODEC_OK
          THEN /\ stack' = SetTop([Top EXCEPT !.fld = Top.fld + 1, !.idx = 0])
               /\ UNCHANGED <<retVars, child_err>>
          ELSE /\ ReturnFrom(err, 0)
               /\ NoteChildErr(err)
    /\ UNCHANGED <<structs, input_len, args_null, heap, allocated,
                   remaining_input_buf, bad_free, rd_log, buf_fail>>
    /\ UNCHANGED <<output_len, output, remaining_output_buf>>
    /\ UNCHANGED <<layVars, bitVars, compVars, toolVars>>

\* an embedded struct field or array element: <T>_encode(remaining_output_buf,
\* output_buf, &value->field[i]) is called
EncodeNestedCall ==
    /\ Running("encode", "field")
    /\ Top.fld <= Len(TopFields)
    /\ ~TopField.is_pointer /\ IsStructField(TopField)
    /\ stack' = Append(SetTop([Top EXCEPT !.pc = "called"]),
                       EncodeFrame(StructTypeOf(TopField)))
    /\ UNCHANGED <<structs, input_len, args_null, heap, allocated, retVars,
                   remaining_input_buf, bad_free, rd_log, child_err, buf_fail>>
    /\ UNCHANGED <<layVars, bitVars, encBufVars, compVars, toolVars>>

\* <T>_encode came back: on failure return its code, otherwise go on
EncodeNestedReturn ==
    /\ Running("encode", "called")
    /\ IF call_ret.rc # CODEC_OK
       THEN Return(call_ret.rc, 0)
       ELSE /\ stack' = SetTop([Advance(Top, TopField) EXCEPT !.pc = "field"])
            /\ UNCHANGED <<retVars, child_err>>
    /\ UNCHANGED <<structs, input_len, args_null, heap, allocated,
                   remaining_input_buf, bad_free, rd_log, buf_fail>>
    /\ UNCHANGED <<layVars, bitVars, encBufVars, compVars, toolVars>>

\* the tail of <R>_encode: buf_from_buf sets the remaining buffer, then
\* return CODEC_OK; (also when neither 'if' of the buf_from_buf block matched)
EncodeFinish ==
    /\ Running("encode", "field")
    /\ Top.fld > Len(TopFields)
    /\ LET err == buf_from_buf(output_len, Top.offset)
       IN  /\ buf_fail' = (buf_fail \/ err # "BUF_OK")
           /\ IF err = "BUF_OK"
              THEN /\ remaining_output_buf' =
                         [set |-> TRUE, start |-> Top.offset,
                          len |-> output_len - Top.offset]
                   /\ Return(CODEC_OK, 0)
              ELSE /\ UNCHANGED remaining_output_buf
                   /\ IF BufErrReturn(err) = "fallthrough"
                      THEN Return(CODEC_OK, 0)
                      ELSE Return(BufErrReturn(err), 0)
    /\ UNCHANGED <<structs, input_len, args_null, heap, allocated,
                   remaining_input_buf, bad_free, rd_log>>
    /\ UNCHANGED <<output_len, output, wr_log>>
    /\ UNCHANGED <<layVars, bitVars, compVars, toolVars>>

NextDecode ==
    \/ DecodeEntry
    \/ DecodeScalar
    \/ DecodePointer
    \/ DecodeNestedCall
    \/ DecodeNestedReturn
    \/ DecodeCleanupReturn
    \/ DecodeFinish
    \/ DisposeEntry
    \/ DisposeField
    \/ DisposeFree
    \/ EncodeCall
    \/ EncodeEntry
    \/ EncodeScalar
    \/ EncodePointer
    \/ EncodeNestedCall
    \/ EncodeNestedReturn
    \/ EncodeFinish

SpecDecode == InitDecode /\ [][NextDecode]_vars

-----------------------------------------------------------------------------
(* SpecDispose: the caller of <R>_decode disposes what it was handed:      *)
(* Outer_dispose(value), value being the record of a decode that returned  *)
(* CODEC_OK, or the NULL the caller's pointer still holds after a decode   *)
(* that failed.                                                            *)

InitDispose ==
    /\ LayoutIdle
    /\ BitsIdle
    /\ CompileIdle
    /\ ToolsIdle
    /\ \E inner \in SeqsUpTo(InnerShapes, MaxInnerFields),
          outer \in SeqsUpTo(OuterShapes, MaxFields) :
          structs = [S \in {"Inner", "Outer"} |-> IF S = "Inner" THEN inner ELSE outer]
    /\ input_len = 0
    /\ args_null = FALSE
    /\ \E decoded \in BOOLEAN :
          /\ heap = IF decoded THEN {1} ELSE {}
          /\ allocated = 1
          /\ value_out = IF decoded THEN 1 ELSE 0
          /\ ret = IF decoded THEN CODEC_OK ELSE "CODEC_ERR_OUT_OF_BOUNDS"
          /\ stack = <<DisposeFrame("Outer", <<IF decoded THEN 1 ELSE 0, 0>>)>>
    /\ call_ret = [rc |-> "none", ptr |-> 0]
    /\ remaining_input_buf = [set |-> FALSE, start |-> 0, len |-> 0]
    /\ ret_at = 0
    /\ bad_free = FALSE
    /\ output_len = 0
    /\ output = << >>
    /\ remaining_output_buf = [set |-> FALSE, start |-> 0, len |-> 0]
    /\ enc_ret = "off"
    /\ rd_log = << >>
    /\ wr_log = << >>
    /\ child_err = "none"
    /\ buf_fail = FALSE

NextDispose == DisposeEntry \/ DisposeField \/ DisposeFree

SpecDispose == InitDispose /\ [][NextDispose]_vars

-----------------------------------------------------------------------------
(* SpecConcurrent: two threads of one process each make one call of an      *)
(* emitted function of 'struct R { codec_u8 f1; ...; codec_u8 fN; }' on a   *)
(* buffer and a record of their own: R_decode, R_encode or R_dispose.  mem  *)
(* is the memory of the process, a location being <<kind, owner, index>>;   *)
(* a step of a thread is one statement group of the emitted code and       *)
(* records the locations it reads and writes.  malloc and free are atomic   *)
(* and keep their own state (the library's lock).                           *)

Threads == {1, 2}

\* the fields of struct R
NumConFields == 2

\* the emitted 'size_t offset = 0;' as a static of the translation unit
OffsetLocStatic(t) == <<"static.offset", 0, 0>>

\* 'size_t offset = 0;': an automatic variable, one per call
OffsetLoc(t) == <<"stack.offset", t, 0>>
\* 'struct R *result = malloc(...)': an automatic variable as well
ResultLoc(t) == <<"stack.result", t, 0>>
\* the arguments: byte i of the caller's input_buf / output_buf, its *value
\* and its remaining buffer (held as the offset it starts at)
InLoc(t, i) == <<"input_buf", t, i>>
OutLoc(t, i) == <<"output_buf", t, i>>
ValueLoc(t) == <<"value", t, 0>>
RemLoc(t) == <<"remaining", t, 0>>
\* field k of the record in block b
FieldLoc(b, k) == <<"heap", b, k>>
\* the allocator's own state: the last block handed out, and block b in use
BrkLoc == <<"malloc.brk", 0, 0>>
LiveLoc(b) == <<"malloc.live", b, 0>>

\* blocks: the record thread t owns is block t; malloc hands out the next ones
Blocks == 1..(2 * Cardinality(Threads))

Locations ==
    {OffsetLoc(t) : t \in Threads} \cup {ResultLoc(t) : t \in Threads}
    \cup {ValueLoc(t) : t \in Threads} \cup {RemLoc(t) : t \in Threads}
    \cup {InLoc(t, i) : t \in Threads, i \in 0..(MaxBufLen - 1)}
    \cup {OutLoc(t, i) : t \in Threads, i \in 0..(MaxBufLen - 1)}
    \cup {FieldLoc(b, k) : b \in Blocks, k \in 1..NumConFields}
    \cup {LiveLoc(b) : b \in Blocks} \cup {BrkLoc}

\* the calls at hand and the lengths of the caller's buffer
ConInputs == [op : {"decode", "encode", "dispose"}, len : 0..MaxBufLen]

\* memory before the calls: every byte of the input buffers and every field
\* of the callers' records holds a value of its own
InitialMem ==
    [l \in Locations |->
        CASE l[1] = "input_buf" -> 16 * l[2] + l[3] + 1
          [] l[1] = "heap" /\ l[2] \in Threads -> 64 + 16 * l[2] + l[3]
          [] l[1] = "malloc.live" /\ l[2] \in Threads -> 1
          [] l = BrkLoc -> Cardinality(Threads)
          [] OTHER -> 0]

InitialThr ==
    [t \in Threads |-> [pc |-> "entry", fld |-> 1, ret |-> "none", touched |-> {},
                        overlapped |-> FALSE]]

\* thread t at pc' and fld', having touched the locations L
Moved(S, t, pc, fld, L, m) ==
    [thr |-> [S.thr EXCEPT ![t].pc = pc, ![t].fld = fld,
                           ![t].touched = @ \cup L],
     mem |-> m]

\* 'return rc;'
ReturnedWith(S, t, rc, L, m) ==
    [thr |-> [S.thr EXCEPT ![t].pc = "done", ![t].ret = rc,
                           ![t].touched = @ \cup L],
     mem |-> m]

\* one statement group of R_decode(&value, &remaining, input_buf) in thread t
decode_step(S, t, len) ==
    LET m   == S.mem
        th  == S.thr[t]
        off == m[OffsetLoc(t)]
        res == m[ResultLoc(t)]
    IN  CASE th.pc = "entry" ->
                 \* malloc, memset, offset = 0
                 LET b == m[BrkLoc] + 1
                 IN  Moved(S, t, "field", 1,
                           {ResultLoc(t), OffsetLoc(t)}
                               \cup {FieldLoc(b, k) : k \in 1..NumConFields},
                           [l \in Locations |->
                               IF l = BrkLoc \/ l = ResultLoc(t) THEN b
                               ELSE IF l = LiveLoc(b) THEN 1
                               ELSE IF l = OffsetLoc(t) THEN 0
                               ELSE IF l[1] = "heap" /\ l[2] = b THEN 0
                               ELSE m[l]])
          [] th.pc = "field" /\ th.fld <= NumConFields ->
                 \* buf_get_u8((uint8_t*)&result->f, input_buf, offset)
                 LET err == buf_get_u8(len, off)
                 IN  IF err = "BUF_OK"
                     THEN Moved(S, t, "advance", th.fld,
                                {OffsetLoc(t), ResultLoc(t), InLoc(t, off),
                                 FieldLoc(res, th.fld)},
                                [m EXCEPT ![FieldLoc(res, th.fld)] = m[InLoc(t, off)]])
                     ELSE ReturnedWith(S, t, BufErrReturn(err), {OffsetLoc(t)}, m)
          [] th.pc = "advance" ->
                 \* offset += 1
                 Moved(S, t, "field", th.fld + 1, {OffsetLoc(t)},
                       [m EXCEPT ![OffsetLoc(t)] = off + 1])
          [] th.pc = "field" /\ th.fld > NumConFields ->
                 \* buf_from_buf; *value = result; return CODEC_OK
                 LET err == buf_from_buf(len, off)
                 IN  IF err = "BUF_OK"
                     THEN ReturnedWith(S, t, CODEC_OK,
                                    {OffsetLoc(t), ResultLoc(t), RemLoc(t), ValueLoc(t)},
                                    [m EXCEPT ![RemLoc(t)] = off, ![ValueLoc(t)] = res])
                     ELSE ReturnedWith(S, t, BufErrReturn(err),
                                    {OffsetLoc(t), ResultLoc(t)},
                                    [m EXCEPT ![LiveLoc(res)] = 0])
          [] OTHER -> S

\* one statement group of R_encode(&remaining, output_buf, value) in thread
\* t, value being the record the thread owns
encode_step(S, t, len) ==
    LET m   == S.mem
        th  == S.thr[t]
        off == m[OffsetLoc(t)]
    IN  CASE th.pc = "entry" ->
                 Moved(S, t, "field", 1, {OffsetLoc(t)}, [m EXCEPT ![OffsetLoc(t)] = 0])
          [] th.pc = "field" /\ th.fld <= NumConFields ->
                 \* buf_set_u8(output_buf, offset, (uint8_t)value->f)
                 LET err == buf_set_u8(len, off)
                 IN  IF err = "BUF_OK"
                     THEN Moved(S, t, "advance", th.fld,
                                {OffsetLoc(t), FieldLoc(t, th.fld), OutLoc(t, off)},
                                [m EXCEPT ![OutLoc(t, off)] = m[FieldLoc(t, th.fld)]])
                     ELSE ReturnedWith(S, t, BufErrReturn(err), {OffsetLoc(t)}, m)
          [] th.pc = "advance" ->
                 Moved(S, t, "field", th.fld + 1, {OffsetLoc(t)},
                       [m EXCEPT ![OffsetLoc(t)] = off + 1])
          [] th.pc = "field" /\ th.fld > NumConFields ->
                 LET err == buf_from_buf(len, off)
                 IN  IF err = "BUF_OK"
                     THEN ReturnedWith(S, t, CODEC_OK, {OffsetLoc(t), RemLoc(t)},
                                    [m EXCEPT ![RemLoc(t)] = off])
                     ELSE ReturnedWith(S, t, BufErrReturn(err), {OffsetLoc(t)}, m)
          [] OTHER -> S

\* R_dispose(value) in thread t, value being the record the thread owns:
\* no pointer or struct field, so free(value) is all it does
dispose_step(S, t) ==
    IF S.thr[t].pc = "entry"
    THEN ReturnedWith(S, t, "void", {}, [S.mem EXCEPT ![LiveLoc(t)] = 0])
    ELSE S

\* the next statement group of thread t
Step(S, t, inp) ==
    CASE inp[t].op = "decode" -> decode_step(S, t, inp[t].len)
      [] inp[t].op = "encode" -> encode_step(S, t, inp[t].len)
      [] OTHER -> dispose_step(S, t)

\* the other thread has begun its call and has not returned from it
OtherRunning(t) ==
    \E u \in Threads \ {t} : thr[u].pc \notin {"entry", "done"}

InitConcurrent ==
    /\ LayoutIdle
    /\ BitsIdle
    /\ DecodeIdle
    /\ CompileIdle
    /\ DriverIdle
    /\ FieldsIdle
    /\ PdlIdle
    /\ con_in \in [Threads -> ConInputs]
    /\ thr = InitialThr
    /\ mem = InitialMem

\* thread t runs the next statement group of its call
ThreadStep(t, op) ==
    /\ con_in[t].op = op
    /\ thr[t].pc # "done"
    /\ LET S == Step([thr |-> thr, mem |-> mem], t, con_in)
       IN  /\ thr' = [S.thr EXCEPT ![t].overlapped = @ \/ OtherRunning(t)]
           /\ mem' = S.mem
    /\ UNCHANGED con_in
    /\ UNCHANGED <<layVars, bitVars, decVars, compVars, drvVars, psVars, pdlVars>>

DecodeStep == \E t \in Threads : ThreadStep(t, "decode")
EncodeStep == \E t \in Threads : ThreadStep(t, "encode")
DisposeStep == \E t \in Threads : ThreadStep(t, "dispose")

NextConcurrent == DecodeStep \/ EncodeStep \/ DisposeStep

SpecConcurrent == InitConcurrent /\ [][NextConcurrent]_vars

-----------------------------------------------------------------------------
(* SpecDriver: main() of the generators (gen_codec_final.py, gen_codec.py,  *)
(* gen_codec_v2.py: the same loop) runs over args.input_files.  An input    *)
(* file is "ok", "missing" (input_path.exists() is false) or "unparsable"   *)
(* (reading, parsing or generating raises).                                 *)

\* most input files on the command line
MaxFiles == 3

FileKinds == {"ok", "missing", "unparsable"}

InitDriver ==
    /\ LayoutIdle
    /\ BitsIdle
    /\ DecodeIdle
    /\ CompileIdle
    /\ ConcurrentIdle
    /\ FieldsIdle
    /\ PdlIdle
    /\ input_files \in SeqsUpTo(FileKinds, MaxFiles)
    /\ file_i = 1
    /\ diagnostics = << >>
    /\ written = << >>
    /\ exit_status = "running"

InLoop == exit_status = "running" /\ file_i <= Len(input_files)

\* 'if not input_path.exists(): print("Error: File not found: ..."); continue'
FileNotFound ==
    /\ InLoop
    /\ input_files[file_i] = "missing"
    /\ diagnostics' = Append(diagnostics, file_i)
    /\ file_i' = file_i + 1
    /\ UNCHANGED <<input_files, written, exit_status>>
    /\ UNCHANGED <<layVars, bitVars, decVars, compVars, conVars, psVars, pdlVars>>

\* the try block raises: 'except Exception as e: print("Error processing
\* ..."); continue'
FileFails ==
    /\ InLoop
    /\ input_files[file_i] = "unparsable"
    /\ diagnostics' = Append(diagnostics, file_i)
    /\ file_i' = file_i + 1
    /\ UNCHANGED <<input_files, written, exit_status>>
    /\ UNCHANGED <<layVars, bitVars, decVars, compVars, conVars, psVars, pdlVars>>

\* the try block runs to its end: <stem>.h is written
FileGenerated ==
    /\ InLoop
    /\ input_files[file_i] = "ok"
    /\ written' = Append(written, file_i)
    /\ file_i' = file_i + 1
    /\ UNCHANGED <<input_files, diagnostics, exit_status>>
    /\ UNCHANGED <<layVars, bitVars, decVars, compVars, conVars, psVars, pdlVars>>

\* the loop is over: main returns None and the interpreter exits with 0
MainReturns ==
    /\ exit_status = "running"
    /\ file_i > Len(input_files)
    /\ exit_status' = "0"
    /\ UNCHANGED <<input_files, file_i, diagnostics, written>>
    /\ UNCHANGED <<layVars, bitVars, decVars, compVars, conVars, psVars, pdlVars>>

NextDriver == FileNotFound \/ FileFails \/ FileGenerated \/ MainReturns

SpecDriver == InitDriver /\ [][NextDriver]_vars

-----------------------------------------------------------------------------
(* SpecFields: parse_struct_fields of src/attic/gen_codec/gen_codec.py runs *)
(* on the body of one struct, and generate_implementation picks the code it *)
(* emits for each Field.  Text is a sequence of one-character strings.      *)

\* most member declarations of the struct body
MaxDecls == 2

\* the characters \w matches, among those of the texts at hand
WordChars == {"c", "o", "d", "e", "_", "u", "8", "s", "t", "r", "S", "n", "2"}
\* the characters \s matches
SpaceChars == {" ", "\n"}

codec_u8_text == <<"c", "o", "d", "e", "c", "_", "u", "8">>
struct_text == <<"s", "t", "r", "u", "c", "t">>
struct_S_text == struct_text \o <<" ", "S">>

\* the member declarations at hand: T name, T *name, T name[2], for T a
\* codec type or 'struct S'
DeclChoices ==
    [type : {codec_u8_text, struct_S_text}, ptr : BOOLEAN, name : {<<"n">>},
     arr : {<< >>, <<"2">>}]

\* the source text of a member declaration, without its semicolon
DeclText(d) ==
    d.type \o <<" ">> \o (IF d.ptr THEN <<"*">> ELSE << >>) \o d.name
        \o (IF d.arr = << >> THEN << >> ELSE <<"[">> \o d.arr \o <<"]">>)

RECURSIVE BodyText(_)
\* the struct body: one declaration a line, each ended by a semicolon
BodyText(ds) ==
    IF ds = << >> THEN <<"\n">>
    ELSE <<"\n", " ">> \o DeclText(Head(ds)) \o <<";">> \o BodyText(Tail(ds))

RECURSIVE split(_, _)
\* str.split(sep)
split(text, sep) ==
    IF \A i \in 1..Len(text) : text[i] # sep THEN <<text>>
    ELSE LET i == CHOOSE j \in 1..Len(text) :
                      text[j] = sep /\ \A k \in 1..(j - 1) : text[k] # sep
         IN  <<SubSeq(text, 1, i - 1)>> \o split(SubSeq(text, i + 1, Len(text)), sep)

\* str.strip()
strip(text) ==
    LET keep == {i \in 1..Len(text) : text[i] \notin SpaceChars}
    IN  IF keep = {} THEN << >>
        ELSE SubSeq(text, CHOOSE i \in keep : \A j \in keep : i <= j,
                          CHOOSE i \in keep : \A j \in keep : j <= i)

RECURSIVE Run(_, _, _)
\* the length of the longest run of characters of C that starts at text[i]
Run(text, i, C) ==
    IF i <= Len(text) /\ text[i] \in C THEN 1 + Run(text, i + 1, C) ELSE 0

\* the greater of two <<a, b>> pairs in the order a regex engine tries greedy
\* repetitions: longest first, leftmost repetition first
Longest(P) ==
    CHOOSE p \in P : \A q \in P : q[1] < p[1] \/ (q[1] = p[1] /\ q[2] <= p[2])

\* the tail of the pattern, '\s+(\**)(\w+)(\[([^\]]+)\])?', matched at
\* text[i]: the ways \s+ and \** can be matched so that \w+ matches after them
RestChoices(text, i) ==
    {<<w, s>> \in (1..Len(text)) \X (0..Len(text)) :
        /\ w <= Run(text, i, SpaceChars)
        /\ s <= Run(text, i + w, {"*"})
        /\ Run(text, i + w + s, WordChars) >= 1}

\* the groups of the tail for the match the engine finds first
RestGroups(text, i) ==
    LET p    == Longest(RestChoices(text, i))
        at   == i + p[1] + p[2]
        n    == Run(text, at, WordChars)
        open == at + n
        len  == Run(text, open + 1, {text[k] : k \in 1..Len(text)} \ {"]"})
        has  == /\ open <= Len(text) /\ text[open] = "["
                /\ len >= 1
                /\ open + len + 1 <= Len(text) /\ text[open + len + 1] = "]"
    IN  [pointers |-> SubSeq(text, i + p[1], at - 1),
         field_name |-> SubSeq(text, at, at + n - 1),
         array_bracket |-> has,
         array_size |-> IF has THEN SubSeq(text, open + 1, open + len) ELSE << >>]

\* group 1, '(\w+|\bstruct\s+\w+)': the length of what it matches at the
\* start of the line in the first match the engine finds (0: no match).  The
\* alternatives are tried in order, each with its repetitions longest first.
FirstGroup(text) ==
    LET A == {n \in 1..Len(text) :
                 n <= Run(text, 1, WordChars) /\ RestChoices(text, n + 1) # {}}
        B == {<<w, n>> \in (1..Len(text)) \X (1..Len(text)) :
                 /\ Len(text) >= Len(struct_text)
                 /\ SubSeq(text, 1, Len(struct_text)) = struct_text
                 /\ w <= Run(text, Len(struct_text) + 1, SpaceChars)
                 /\ n <= Run(text, Len(struct_text) + 1 + w, WordChars)
                 /\ RestChoices(text, Len(struct_text) + 1 + w + n) # {}}
    IN  IF A # {} THEN CHOOSE n \in A : \A k \in A : k <= n
        ELSE IF B # {} THEN Len(struct_text) + Longest(B)[1] + Longest(B)[2]
        ELSE 0

\* Field(field_type, name, array_size, is_pointer); array_size None is << >>
Field(ft, name, array_size, is_pointer) ==
    [field_type |-> ft, name |-> name, array_size |-> array_size,
     is_pointer |-> is_pointer]

RECURSIVE FieldsOf(_)
\* the loop over field_lines: a line the pattern matches gives a Field, any
\* other line is passed over
FieldsOf(field_lines) ==
    IF field_lines = << >> THEN << >>
    ELSE LET line == strip(Head(field_lines))
             g1   == FirstGroup(line)
             g    == RestGroups(line, g1 + 1)
         IN  (IF g1 = 0 THEN << >>
              ELSE <<Field(SubSeq(line, 1, g1), g.field_name, g.array_size,
                           Len(g.pointers) > 0)>>)
             \o FieldsOf(Tail(field_lines))

\* parse_struct_fields(struct_body)
parse_struct_fields(body) ==
    FieldsOf(SelectSeq([k \in 1..Len(split(body, ";")) |-> strip(split(body, ";")[k])],
                       LAMBDA line : line # << >>))

\* field.field_type.startswith('struct ')
startswith_struct(ft) ==
    /\ Len(ft) >= Len(struct_text) + 1
    /\ SubSeq(ft, 1, Len(struct_text) + 1) = struct_text \o <<" ">>

\* the branch of generate_implementation a Field takes in <R>_decode,
\* <R>_encode and <R>_dispose
FieldBranch(f) ==
    IF f.is_pointer THEN "hook"
    ELSE IF f.array_size # << >>
    THEN (IF startswith_struct(f.field_type) THEN "array of records" ELSE "array of scalars")
    ELSE IF startswith_struct(f.field_type) THEN "record"
    ELSE "scalar"

InitFields ==
    /\ LayoutIdle
    /\ BitsIdle
    /\ DecodeIdle
    /\ CompileIdle
    /\ ConcurrentIdle
    /\ DriverIdle
    /\ PdlIdle
    /\ decls \in SeqsUpTo(DeclChoices, MaxDecls)
    /\ struct_body = BodyText(decls)
    /\ parsed_fields = Unset
    /\ emitted = Unset
    /\ ps_pc = "body"

\* parse_file hands the body of a struct to parse_struct_fields
ParseStructFields ==
    /\ ps_pc = "body"
    /\ parsed_fields' = parse_struct_fields(struct_body)
    /\ ps_pc' = "parsed"
    /\ UNCHANGED <<decls, struct_body, emitted>>
    /\ UNCHANGED <<layVars, bitVars, decVars, compVars, conVars, drvVars, pdlVars>>

\* generate_implementation runs over struct.fields
GenerateImplementation ==
    /\ ps_pc = "parsed"
    /\ emitted' = [k \in 1..Len(parsed_fields) |-> FieldBranch(parsed_fields[k])]
    /\ ps_pc' = "generated"
    /\ UNCHANGED <<decls, struct_body, parsed_fields>>
    /\ UNCHANGED <<layVars, bitVars, decVars, compVars, conVars, drvVars, pdlVars>>

NextFields == ParseStructFields \/ GenerateImplementation

SpecFields == InitFields /\ [][NextFields]_vars

-----------------------------------------------------------------------------
(* SpecPdl: SimplePDLParser.parse_file of gen_codec_v2.py runs on the text  *)
(* of a schema, as test_parser.py calls it.  The text is held as its        *)
(* sequence of tokens (words, numbers and the punctuation marks), white     *)
(* space left out: the patterns of the parser skip or strip it wherever     *)
(* the texts at hand have it.                                               *)

\* the tokens \w+ does not match
Punctuation == {"[", "]", ",", ":", "{", "}", "="}

\* the numbers a byte_order list is written with
NumTok(n) == CASE n = 0 -> "0" [] n = 1 -> "1" [] n = 2 -> "2" [] OTHER -> "3"
\* int(item): the tokens int() converts, with their values
IntOf == [t \in {"0", "1", "2", "3"} |-> CASE t = "0" -> 0 [] t = "1" -> 1
                                            [] t = "2" -> 2 [] OTHER -> 3]

\* what parse_value returns: an int, a list, or the text itself
MkInt(n) == [kind |-> "int", n |-> n, text |-> << >>, items |-> << >>]
MkRaw(text) == [kind |-> "str", n |-> 0, text |-> text, items |-> << >>]
MkList(items) == [kind |-> "list", n |-> 0, text |-> << >>, items |-> items]
\* a key the result dict does not have
Absent == [kind |-> "absent", n |-> 0, text |-> << >>, items |-> << >>]

\* a field of a message as parse_fields returns it: {'name', 'type':
\* 'type_ref', 'ref'}
MkPdlField(name, ref) == [name |-> name, type |-> "type_ref", ref |-> ref]

\* a definition as parse_definition_body returns it
MkPdlDef(name, type, base_type, byte_order, fields) ==
    [name |-> name, type |-> type, base_type |-> base_type,
     byte_order |-> byte_order, fields |-> fields]

\* the statements of the schemas at hand: the two of test_parser.py, with
\* byte_order lists of one or two numbers and up to MaxFields fields
PdlFieldChoices == {MkPdlField("command", "u16_le"), MkPdlField("length", "u16_le")}
StatementChoices ==
    {MkPdlDef("u16_le", "primitive", "u16", MkList(order), << >>) :
         order \in {<<MkInt(0)>>, <<MkInt(0), MkInt(1)>>}}
    \cup {MkPdlDef("simple_message", "message", "", Absent, fs) :
              fs \in {<< >>} \cup SeqsUpTo(PdlFieldChoices, MaxFields)}

RECURSIVE CommaSeparated(_)
\* the texts of a list, commas between them
CommaSeparated(texts) ==
    IF texts = << >> THEN << >>
    ELSE IF Len(texts) = 1 THEN texts[1]
    ELSE texts[1] \o <<",">> \o CommaSeparated(Tail(texts))

\* the source text of a statement: def name = { type: ..., ...: [ ... ] }
StatementText(st) ==
    <<"def", st.name, "=", "{", "type", ":">>
    \o (IF st.type = "primitive"
        THEN <<st.base_type, ",", "byte_order", ":", "[">>
             \o CommaSeparated([k \in 1..Len(st.byte_order.items) |->
                                   <<NumTok(st.byte_order.items[k].n)>>])
        ELSE <<"message", ",", "fields", ":", "[">>
             \o CommaSeparated([k \in 1..Len(st.fields) |->
                                   <<st.fields[k].name, ":", st.fields[k].ref>>]))
    \o <<"]", "}">>

RECURSIVE SchemaText(_)
SchemaText(sts) ==
    IF sts = << >> THEN << >> ELSE StatementText(Head(sts)) \o SchemaText(Tail(sts))

\* parse_value(value)
parse_value(value) ==
    IF Len(value) >= 2 /\ value[1] = "[" /\ value[Len(value)] = "]"
    THEN LET inner == SubSeq(value, 2, Len(value) - 1)
             items == split(inner, ",")
         IN  IF inner = << >> THEN MkList(<< >>)
             ELSE IF \A k \in 1..Len(items) :
                         Len(items[k]) = 1 /\ items[k][1] \in DOMAIN IntOf
             THEN MkList([k \in 1..Len(items) |-> MkInt(IntOf[items[k][1]])])
             ELSE MkList([k \in 1..Len(items) |-> MkRaw(items[k])])
    ELSE IF Len(value) = 1 /\ value[1] \in DOMAIN IntOf THEN MkInt(IntOf[value[1]])
    ELSE MkRaw(value)

RECURSIVE finditer_attr(_, _)
\* re.finditer(r'(\w+)\s*:\s*([^,}]+)', body) from token i on: a word, a
\* colon, and everything up to the next comma; <<key, parse_value(value)>>
\* for each match
finditer_attr(body, i) ==
    IF i + 2 > Len(body) THEN << >>
    ELSE IF /\ body[i] \notin Punctuation
            /\ body[i + 1] = ":"
            /\ body[i + 2] # ","
    THEN LET n == Run(body, i + 2, {body[k] : k \in 1..Len(body)} \ {","})
         IN  <<<<body[i], parse_value(SubSeq(body, i + 2, i + 1 + n))>>>>
             \o finditer_attr(body, i + 2 + n)
    ELSE finditer_attr(body, i + 1)

\* key in attrs
HasKey(attrs, key) == \E k \in 1..Len(attrs) : attrs[k][1] = key
\* attrs[key]: the value stored last
ValueOf(attrs, key) ==
    attrs[CHOOSE k \in 1..Len(attrs) :
              attrs[k][1] = key /\ \A j \in 1..Len(attrs) : attrs[j][1] = key => j <= k][2]

\* parse_fields(fields_str): a list has no strip() (AttributeError); a text
\* that is not bracketed gives no field; otherwise one field for each
\* comma-separated 'name: type' part
parse_fields(fields_str) ==
    IF fields_str.kind # "str" THEN [raised |-> TRUE, fields |-> << >>]
    ELSE LET t     == fields_str.text
             inner == SubSeq(t, 2, Len(t) - 1)
             parts == SelectSeq(split(inner, ","),
                                LAMBDA part : \E k \in 1..Len(part) : part[k] = ":")
         IN  IF Len(t) < 2 \/ t[1] # "[" \/ t[Len(t)] # "]" \/ inner = << >>
             THEN [raised |-> FALSE, fields |-> << >>]
             ELSE [raised |-> FALSE,
                   fields |-> [k \in 1..Len(parts) |->
                                  MkPdlField(parts[k][1], parts[k][Len(parts[k])])]]

\* the base types parse_definition_body knows
PdlPrimitives == {"u8", "u16", "u32", "u64", "i8", "i16", "i32", "i64", "f32", "f64"}

\* parse_definition_body(name, body): the definition, whether it is None,
\* whether parse_fields raised (no schema at hand has type: bit_field)
parse_definition_body(name, body) ==
    LET attrs    == finditer_attr(body, 1)
        type_val == ValueOf(attrs, "type")
        fields   == parse_fields(IF HasKey(attrs, "fields") THEN ValueOf(attrs, "fields")
                                 ELSE MkRaw(<<"[", "]">>))
    IN  IF ~HasKey(attrs, "type")
        THEN [raised |-> FALSE, none |-> TRUE, def |-> Absent]
        ELSE IF type_val = MkRaw(<<"message">>)
        THEN [raised |-> fields.raised, none |-> FALSE,
              def |-> MkPdlDef(name, "message", "", Absent, fields.fields)]
        ELSE IF type_val.kind = "str" /\ Len(type_val.text) = 1
                /\ type_val.text[1] \in PdlPrimitives
        THEN [raised |-> FALSE, none |-> FALSE,
              def |-> MkPdlDef(name, "primitive", type_val.text[1],
                               IF HasKey(attrs, "byte_order")
                               THEN ValueOf(attrs, "byte_order") ELSE Absent,
                               << >>)]
        ELSE [raised |-> FALSE, none |-> FALSE,
              def |-> MkPdlDef(name, IF HasKey(attrs, "const") THEN "constant" ELSE "type_ref",
                               "", Absent, << >>)]

RECURSIVE finditer_def(_, _)
\* re.finditer(r'def\s+(\w+)\s*=\s*\{([^}]+)\}', content) from token i on:
\* <<name, body>> for each match, the body ending at the first closing brace
finditer_def(text, i) ==
    IF i + 5 > Len(text) THEN << >>
    ELSE LET n == Run(text, i + 4, {text[k] : k \in 1..Len(text)} \ {"}"})
         IN  IF /\ text[i] = "def"
                /\ text[i + 1] \notin Punctuation
                /\ text[i + 2] = "="
                /\ text[i + 3] = "{"
                /\ n >= 1
                /\ i + 4 + n <= Len(text)
             THEN <<<<text[i + 1], SubSeq(text, i + 4, i + 3 + n)>>>>
                  \o finditer_def(text, i + 5 + n)
             ELSE finditer_def(text, i + 1)

\* parse_file(content): results['definitions'], or the exception that ends
\* the call
parse_file(text) ==
    LET found  == finditer_def(text, 1)
        parsed == [k \in 1..Len(found) |-> parse_definition_body(found[k][1], found[k][2])]
        kept   == SelectSeq(parsed, LAMBDA d : ~d.none)
    IN  IF \E k \in 1..Len(parsed) : parsed[k].raised
        THEN [raised |-> TRUE, definitions |-> << >>]
        ELSE [raised |-> FALSE, definitions |-> [k \in 1..Len(kept) |-> kept[k].def]]

InitPdl ==
    /\ LayoutIdle
    /\ BitsIdle
    /\ DecodeIdle
    /\ CompileIdle
    /\ ConcurrentIdle
    /\ DriverIdle
    /\ FieldsIdle
    /\ pdl_schema \in SeqsUpTo(StatementChoices, MaxDefs)
    /\ content = SchemaText(pdl_schema)
    /\ results = Unset
    /\ pdl_pc = "start"

\* result = parser.parse_file(content)
ParseFile ==
    /\ pdl_pc = "start"
    /\ results' = parse_file(content)
    /\ pdl_pc' = "parsed"
    /\ UNCHANGED <<pdl_schema, content>>
    /\ UNCHANGED <<layVars, bitVars, decVars, compVars, conVars, drvVars, psVars>>

NextPdl == ParseFile

SpecPdl == InitPdl /\ [][NextPdl]_vars


-----------------------------------------------------------------------------
(* Properties of the byte layout (SpecLayout) *)

\* the bytes, by significance, of the 32-bit value 0x12345678
V12345678 == [k \in 0..3 |-> <<120, 86, 52, 18>>[k + 1]]

\* a wire image of four bytes
Wire4(b0, b1, b2, b3) == [i \in 0..3 |-> <<b0, b1, b2, b3>>[i + 1]]

\* C3: for every integer type of the type table the emitted encode and decode
\* are inverses: decoding the bytes encode produced for v gives v back, and
\* encoding the value decoded from N wire bytes reproduces those bytes.
IntegerRoundTrip ==
    (field_type \in IntegerTypes /\ lay_pc = "roundtrip") =>
        IF lay_origin = "value" THEN var_name = lay_input ELSE bytes = lay_input

\* C3 witness: a byte-swapped 32-bit integer whose four bytes differ has gone
\* value -> wire -> value, and a 64-bit one wire -> value -> wire
IntegerRoundTripReached ==
    /\ lay_pc = "roundtrip"
    /\ \/ /\ field_type = <<"u32", "_le_bs">>
          /\ lay_origin = "value"
          /\ lay_input = V12345678
          /\ var_name = V12345678
          /\ bytes # lay_input
       \/ /\ field_type = <<"i64", "_be_bs">>
          /\ lay_origin = "wire"
          /\ Cardinality({lay_input[i] : i \in 0..7}) = 8
          /\ bytes = lay_input

\* C4 (as claimed): under the _be_bs types the 16-bit words go out in
\* reversed word order (least significant word first), each word big-endian:
\* wire bytes 2j, 2j+1 are the high and the low byte of value word j; so
\* 0x12345678 encodes to [0x56,0x78,0x12,0x34] and decodes back from it.
SwappedBigEndianWords ==
    /\ (HasBeBs(field_type) /\ lay_origin = "value" /\ lay_pc = "encoded") =>
          \A j \in 0..((type_sizes(field_type) \div 2) - 1) :
              /\ bytes[2 * j] = lay_input[2 * j + 1]
              /\ bytes[2 * j + 1] = lay_input[2 * j]
    /\ (field_type = <<"u32", "_be_bs">> /\ lay_origin = "wire" /\ lay_pc = "decoded"
            /\ lay_input = Wire4(86, 120, 18, 52)) =>
          var_name = V12345678

\* C5 (as claimed): under the _le_bs types 0x12345678 encodes to
\* [0x34,0x12,0x78,0x56], and those bytes decode to 0x12345678.
SwappedLittleEndianVector ==
    /\ (field_type \in {<<"u32", "_le_bs">>, <<"i32", "_le_bs">>}
            /\ lay_origin = "value" /\ lay_pc = "encoded" /\ lay_input = V12345678) =>
          bytes = Wire4(52, 18, 120, 86)
    /\ (field_type \in {<<"u32", "_le_bs">>, <<"i32", "_le_bs">>}
            /\ lay_origin = "wire" /\ lay_pc = "decoded"
            /\ lay_input = Wire4(52, 18, 120, 86)) =>
          var_name = V12345678

IsNativeBe(t) == Suffix(t) = "_be"
IsNativeLe(t) == Suffix(t) = "_le"

BigVariantOf(t) == <<Base(t), IF Suffix(t) = "_le" THEN "_be" ELSE "_be_bs">>

\* C7 (as claimed): for every 4- and 8-byte value the wire bytes of the
\* little variant are the reverse of the wire bytes of the big variant, for
\* the native and for the swapped orders.
MirrorImages ==
    LET n == type_sizes(field_type)
    IN  (lay_origin = "value" /\ lay_pc = "encoded" /\ HasLe(field_type) /\ n \in {4, 8}) =>
            \A i \in 0..(n - 1) :
                bytes[i] = get_encode_code(BigVariantOf(field_type), lay_input)[n - 1 - i]

\* C8 (as claimed): a float field is decoded to the value whose IEEE-754 bit
\* pattern is the integer assembled from the wire bytes, so every bit pattern
\* goes value -> wire -> value unchanged.
FloatBitPattern ==
    /\ (IsFloat(field_type) /\ lay_origin = "wire" /\ lay_pc = "decoded") =>
          var_name = AssembleInt(field_type, lay_input)
    /\ (IsFloat(field_type) /\ lay_origin = "value" /\ lay_pc = "roundtrip") =>
          var_name = lay_input


-----------------------------------------------------------------------------
(* C integer expressions of the emitted bit-field accessors.  An operand is *)
(* [w: its width, sgn: signed?, bits: its one-bits].                        *)

\* the int constant 1
CIntOne == [w |-> 32, sgn |-> TRUE, bits |-> {0}]

\* the integer promotions of an unsigned object of W bits: uint8_t and
\* uint16_t become int, uint32_t and uint64_t keep their type
Promote(B, W) ==
    IF W < 32 THEN [w |-> 32, sgn |-> TRUE, bits |-> B]
    ELSE [w |-> W, sgn |-> FALSE, bits |-> B]

\* x << n; a result that does not fit wraps, a count >= the width is
\* undefined: the count modulo the width ("mod") or 0 ("zero")
Shl(x, n, ub) ==
    LET by(m) == [x EXCEPT !.bits = {j + m : j \in x.bits} \cap (0..(x.w - 1))]
    IN  IF n >= x.w
        THEN IF ub = "zero" THEN [x EXCEPT !.bits = {}] ELSE by(n % x.w)
        ELSE by(n)

\* x >> n of a non-negative x, n < width
Shr(x, n) == [x EXCEPT !.bits = {j - n : j \in {i \in x.bits : i >= n}}]

\* x - 1, wrapping
Sub1(x) == [x EXCEPT !.bits = (0..(x.w - 1)) \ NegBits(x.bits, x.w)]

\* ~x
Not(x) == [x EXCEPT !.bits = (0..(x.w - 1)) \ x.bits]

\* x converted to a type of w >= x.w bits: a negative signed value is sign-extended
Widen(x, w, sgn) ==
    [w |-> w, sgn |-> sgn,
     bits |-> IF x.sgn /\ (x.w - 1) \in x.bits THEN x.bits \cup (x.w..(w - 1)) ELSE x.bits]

\* the usual arithmetic conversions of a binary operator's operands
CommonWidth(x, y) == IF x.w > y.w THEN x.w ELSE y.w
CommonSigned(x, y) ==
    IF x.w = y.w THEN x.sgn /\ y.sgn ELSE IF x.w > y.w THEN x.sgn ELSE y.sgn

\* x & y
And(x, y) ==
    LET w == CommonWidth(x, y)
        g == CommonSigned(x, y)
    IN  [w |-> w, sgn |-> g, bits |-> Widen(x, w, g).bits \cap Widen(y, w, g).bits]

\* x | y
Or(x, y) ==
    LET w == CommonWidth(x, y)
        g == CommonSigned(x, y)
    IN  [w |-> w, sgn |-> g, bits |-> Widen(x, w, g).bits \cup Widen(y, w, g).bits]

\* the one-bits an unsigned object of W bits holds after x is assigned to it
AssignTo(x, W) ==
    (IF W > x.w THEN Widen(x, W, FALSE).bits ELSE x.bits) \cap (0..(W - 1))

-----------------------------------------------------------------------------
(* generate_header: the bit-field accessors *)

\* get_bit_field_type: the width of the C type of a bit-field of bit_length bits
get_bit_field_type(bit_length) ==
    IF bit_length <= 8 THEN 8
    ELSE IF bit_length <= 16 THEN 16
    ELSE IF bit_length <= 32 THEN 32
    ELSE 64

\* ((1 << length) - 1)
MaskExpr(info, ub) == Sub1(Shl(CIntOne, info.length, ub))

\* <R>_get_<field>: return (msg->container >> start_bit) & ((1 << length) - 1);
BitFieldGet(info, c, ub) ==
    AssignTo(And(Shr(Promote(c, info.width), info.start_bit), MaskExpr(info, ub)),
             get_bit_field_type(info.length))

\* <R>_set_<field>, its two statements on the container:
\*   msg->container &= ~(((1 << length) - 1) << start_bit);
\*   msg->container |= (value & ((1 << length) - 1)) << start_bit;
BitFieldSet(info, c, value, ub) ==
    LET W  == info.width
        c1 == AssignTo(And(Promote(c, W),
                           Not(Shl(MaskExpr(info, ub), info.start_bit, ub))), W)
        v  == Promote(value, get_bit_field_type(info.length))
    IN  AssignTo(Or(Promote(c1, W),
                    Shl(And(v, MaskExpr(info, ub)), info.start_bit, ub)), W)

-----------------------------------------------------------------------------
(* SpecBits: the accessors of one bit-field run on one message *)

\* the widths of the unsigned container types
ContainerWidths == {8, 16, 32, 64}

\* the bit-fields that fit their container
BitFieldInfos ==
    {i \in [width : ContainerWidths, start_bit : 0..63, length : 1..64] :
        i.start_bit + i.length <= i.width}

\* container contents a run starts from: zero, all ones, every other bit
ContainerChoices(W) == { {}, 0..(W - 1), {j \in 0..(W - 1) : j % 2 = 1} }

\* setter arguments of a type of w bits: 1, 7, 9, all ones, every other bit
ValueChoices(w) == { {0}, {0, 1, 2}, {0, 3}, 0..(w - 1), {j \in 0..(w - 1) : j % 2 = 0} }

InitBits ==
    /\ LayoutIdle
    /\ DecodeIdle
    /\ CompileIdle
    /\ ToolsIdle
    /\ bit_field_info \in BitFieldInfos
    /\ container \in ContainerChoices(bit_field_info.width)
    /\ member = {}
    /\ bf_value = {}
    /\ bf_before = {}
    /\ bf_got = {}
    /\ bf_calls = 0
    /\ ub_shift \in {"mod", "zero"}
    /\ bf_pc = "idle"

\* a call of <R>_set_<field>(msg, value)
SetField ==
    /\ bf_pc \in {"idle", "set", "got"}
    /\ bf_calls < MaxSetCalls
    /\ \E value \in ValueChoices(get_bit_field_type(bit_field_info.length)) :
          /\ container' = BitFieldSet(bit_field_info, container, value, ub_shift)
          /\ member' = value
          /\ bf_value' = value
    /\ bf_before' = container
    /\ bf_calls' = bf_calls + 1
    /\ bf_pc' = "set"
    /\ UNCHANGED <<bit_field_info, bf_got, ub_shift>>
    /\ UNCHANGED <<layVars, decVars, compVars, toolVars>>

\* a call of <R>_get_<field>(msg)
GetField ==
    /\ bf_pc \in {"idle", "set"}
    /\ bf_got' = BitFieldGet(bit_field_info, container, ub_shift)
    /\ bf_pc' = IF bf_pc = "set" THEN "got" ELSE "idle"
    /\ UNCHANGED <<bit_field_info, container, member, bf_value, bf_before, bf_calls,
                   ub_shift>>
    /\ UNCHANGED <<layVars, decVars, compVars, toolVars>>

NextBits == SetField \/ GetField

SpecBits == InitBits /\ [][NextBits]_vars

-----------------------------------------------------------------------------
(* Properties of the bit-field accessors (SpecBits) *)

\* the bits start_bit .. start_bit + length - 1 of the container
FieldBits(info) == info.start_bit..(info.start_bit + info.length - 1)

\* the low length bits of the value
LowBits(info, value) == value \cap (0..(info.length - 1))

\* C9 (as claimed): for every bit-field that fits its container of 8, 16, 32
\* or 64 bits, the getter called after set(v) returns the low length bits of v.
SetThenGetLowBits ==
    (bf_pc = "got") => bf_got = LowBits(bit_field_info, bf_value)

\* C10 (as claimed): the setter leaves the field's bits equal to the low
\* length bits of v and every other bit of the container as it was.
SetterFrame ==
    (bf_pc = "set") =>
        /\ container \cap FieldBits(bit_field_info) =
              {j + bit_field_info.start_bit : j \in LowBits(bit_field_info, bf_value)}
        /\ container \ FieldBits(bit_field_info) = bf_before \ FieldBits(bit_field_info)


-----------------------------------------------------------------------------
(* Properties of the emitted <R>_decode (SpecDecode) *)

\* C1 (as claimed): when <R>_decode returns an error, whichever field failed,
\* every block allocated during the call, the result record included, has
\* been freed.
NoLeakOnDecodeFailure ==
    (ret \in CodecErrors) => heap = {}

\* C2: the caller's *value is written only on the path that returns
\* CODEC_OK: while the call runs, and after it returned any other code (or
\* died in the allocator), *value is as the caller left it.
ValueWrittenOnlyOnOk ==
    (value_out # 0) => ret = CODEC_OK

\* C2 witness: the call got past malloc and its first field and returned an
\* error at the second, with *value still as the caller left it
DecodeFailedAtSecondField ==
    /\ ret \in CodecErrors
    /\ ret_at = 2
    /\ allocated >= 1
    /\ value_out = 0


-----------------------------------------------------------------------------
(* Properties of the emitted <R>_decode / <R>_encode: buffer failures,      *)
(* offsets, order and propagation (SpecDecode) *)

\* what the caller's current (or last) call has returned
Returned == IF enc_ret = "off" THEN ret ELSE enc_ret

RECURSIVE Consumed(_, _)
\* the bytes the first k accesses of a log cover
Consumed(log, k) == IF k = 0 THEN 0 ELSE Consumed(log, k - 1) + log[k].size

\* every scalar access of the log is made where the accesses before it ended
Threaded(log) ==
    \A k \in 1..Len(log) :
        log[k].kind = "scalar" => log[k].at = Consumed(log, k - 1)

\* no field of the records at hand is a pointer (externally-owned) field
NoPointerFields ==
    \A S \in DOMAIN structs : \A i \in 1..Len(structs[S]) : ~structs[S][i].is_pointer

\* the outer record is built from scalars and arrays of scalars only
ScalarsOnly ==
    \A i \in 1..Len(structs["Outer"]) :
        ~structs["Outer"][i].is_pointer /\ ~IsStructField(structs["Outer"][i])

RECURSIVE ExpectedBytes(_, _)
\* the sum over the first k fields of element size x element count
ExpectedBytes(fs, k) ==
    IF k = 0 THEN 0
    ELSE ExpectedBytes(fs, k - 1) +
         type_sizes(fs[k].field_type) *
             (IF fs[k].array_size > 0 THEN fs[k].array_size ELSE 1)

\* C13: for a record of scalars and fixed-count arrays of scalars a successful
\* <R>_decode has read exactly the sum of element size x element count bytes
\* and the remaining-input buffer starts at that offset.
ScalarRecordConsumesItsSize ==
    (ScalarsOnly /\ ret = CODEC_OK) =>
        LET n == ExpectedBytes(structs["Outer"], Len(structs["Outer"]))
        IN  /\ Consumed(rd_log, Len(rd_log)) = n
            /\ Threaded(rd_log)
            /\ remaining_input_buf.set
            /\ remaining_input_buf.start = n
            /\ remaining_input_buf.len = input_len - n

\* C13 witness: a record with one array of ArraySize codec_u8 was decoded and
\* the remaining buffer starts ArraySize bytes on
ScalarArrayDecoded ==
    /\ ret = CODEC_OK
    /\ structs["Outer"] = <<MkField(<<"u8", "">>, ArraySize, FALSE)>>
    /\ remaining_input_buf.start = ArraySize

\* C14: <R>_encode goes through the fields in the order <R>_decode does and
\* gives each field the byte offset and width decode read it at: the two
\* access logs agree entry by entry, and are equal once both calls succeeded.
EncodeMirrorsDecode ==
    /\ \A k \in 1..Min(Len(rd_log), Len(wr_log)) : rd_log[k] = wr_log[k]
    /\ (ret = CODEC_OK /\ enc_ret = CODEC_OK) => wr_log = rd_log

\* C14 witness: a record with a nested record and at least three accesses was
\* decoded and encoded again
NestedRecordReencoded ==
    /\ ret = CODEC_OK
    /\ enc_ret = CODEC_OK
    /\ Len(wr_log) >= 3
    /\ \E k \in 1..Len(wr_log) : wr_log[k].lvl = 2 /\ wr_log[k].kind = "scalar"
    /\ \E k \in 1..Len(wr_log) : wr_log[k].lvl = 1 /\ wr_log[k].kind = "scalar"

\* <R>_encode has failed at some field: a write or a hook reported an error
EncodeFailed == enc_ret # "off" /\ (buf_fail \/ child_err # "none")

\* C15: once the write of a field fails in <R>_encode the call returns that
\* failure, nothing is written to the output buffer any more, and the failing
\* step itself changes no byte but those of its own field.
EncodeStopsAtFirstFailure ==
    /\ [](EncodeFailed => enc_ret \in {"none"} \cup CodecErrors)
    /\ [][ /\ EncodeFailed => (output' = output /\ wr_log' = wr_log)
           /\ (enc_ret # "off" /\ ~buf_fail /\ buf_fail') =>
                  \A p \in 1..Len(output) :
                      output'[p] \in {output[p], Len(wr_log')} ]_vars

\* C15 witness: <R>_encode returned CODEC_ERR_OUT_OF_BOUNDS from its second
\* or a later access, with the bytes written before still in the buffer
EncodeFailedAfterWriting ==
    /\ buf_fail
    /\ enc_ret = "CODEC_ERR_OUT_OF_BOUNDS"
    /\ Len(wr_log) >= 2
    /\ \E p \in 1..Len(output) : output[p] # 0 /\ output[p] < Len(wr_log)

\* C16: a non-OK code c that a nested <T>_decode / <T>_encode or a pointer
\* field's hook hands to <R>_decode / <R>_encode is the code the caller gets
\* back, whatever the depth it arose at.
ChildErrorPropagatedUnchanged ==
    (child_err # "none" /\ Returned \in {CODEC_OK} \cup CodecErrors) =>
        Returned = child_err

\* C16 witness: a hook called by a nested <T>_decode failed with
\* CODEC_ERR_NO_MEMORY and the caller's <R>_decode returned that code
NestedHookErrorReturned ==
    /\ ret = "CODEC_ERR_NO_MEMORY"
    /\ child_err = "CODEC_ERR_NO_MEMORY"
    /\ rd_log # << >>
    /\ rd_log[Len(rd_log)].lvl = 2
    /\ rd_log[Len(rd_log)].kind = "hook"

-----------------------------------------------------------------------------
(* SpecCompile: one schema file is compiled by gen_codec_fixed.py: main     *)
(* hands the AST to CodeGenerator.process_ast and writes what               *)
(* generate_header renders.  A type_spec (the type of a field) and a        *)
(* type_def (the body of a definition) are records with the fields of all   *)
(* their dataclasses, the unused ones empty.                                *)

\* TypeReference(name)
MkRef(n) ==
    [kind |-> "ref", name |-> n, container |-> "", start_bit |-> 0, length |-> 0]

\* BitFieldType(container, start_bit, length)
MkBitField(c, s, l) ==
    [kind |-> "bit_field", name |-> "", container |-> c, start_bit |-> s, length |-> l]

\* SimpleArrayType(element_type, size): the size plays no part in what is generated
MkArray(el) ==
    [kind |-> "array", name |-> el, container |-> "", start_bit |-> 0, length |-> 0]

\* FieldDefinition(name, type_spec)
MkFieldDef(n, ts) == [name |-> n, type_spec |-> ts]

\* MessageType(fields)
MkMessage(fs) == [kind |-> "message", fields |-> fs, type_ref |-> "", value |-> 0]

\* ConstantType(type_ref, value)
MkConstant(t, v) == [kind |-> "constant", fields |-> << >>, type_ref |-> t, value |-> v]

\* PrimitiveType(base_type)
MkPrimitive(t) == [kind |-> "primitive", fields |-> << >>, type_ref |-> t, value |-> 0]

\* the names the schema files at hand define, and a name none of them defines
DefNames == {"Hdr", "Pdu"}
UndefinedName == "Crc"

\* the bit-fields at hand, <<start_bit, length>>
BitRanges == {<<0, 3>>, <<6, 3>>}

\* the bodies a definition is chosen from: a message with one field that
\* refers to a type, a message with a container and a bit-field in it, a
\* message with an array, a constant, a primitive
TypeDefChoices ==
    {MkMessage(<<MkFieldDef("x", MkRef(n))>>) : n \in {"u8", UndefinedName} \cup DefNames}
    \cup {MkMessage(<<MkFieldDef("flags", MkRef(t)),
                      MkFieldDef("mode", MkBitField("flags", r[1], r[2]))>>) :
              t \in {"u8", "u32"}, r \in BitRanges}
    \cup {MkMessage(<<MkFieldDef("data", MkArray("u8"))>>)}
    \cup {MkConstant(t, 1) : t \in {"u8", UndefinedName}}
    \cup {MkPrimitive("u16")}

\* Definition(name, type_def)
DefinitionChoices == [name : DefNames, type_def : TypeDefChoices]

\* the type_map of get_c_type
type_map ==
    [t \in {"u8", "u16", "u32", "u64", "i8", "i16", "i32", "i64", "f32", "f64"} |->
        CASE t = "u8" -> "uint8_t" [] t = "u16" -> "uint16_t"
          [] t = "u32" -> "uint32_t" [] t = "u64" -> "uint64_t"
          [] t = "i8" -> "int8_t" [] t = "i16" -> "int16_t"
          [] t = "i32" -> "int32_t" [] t = "i64" -> "int64_t"
          [] t = "f32" -> "float" [] t = "f64" -> "double"]

\* get_c_type: type_map.get(pdl_type, pdl_type + '_t')
get_c_type(pdl_type) ==
    IF pdl_type \in DOMAIN type_map THEN type_map[pdl_type] ELSE pdl_type \o "_t"

\* the C type get_bit_field_type names, by its width
UintName(w) ==
    CASE w = 8 -> "uint8_t" [] w = 16 -> "uint16_t" [] w = 32 -> "uint32_t"
      [] OTHER -> "uint64_t"

\* str.upper() on the names at hand
upper(n) == CASE n = "Hdr" -> "HDR" [] n = "Pdu" -> "PDU" [] OTHER -> n

\* generate_field: the GeneratedField of a FieldDefinition
generate_field(field_def) ==
    LET type_spec == field_def.type_spec
    IN  CASE type_spec.kind = "bit_field" ->
                 [name |-> field_def.name,
                  c_type |-> UintName(get_bit_field_type(type_spec.length)),
                  is_array |-> FALSE, is_bit_field |-> TRUE,
                  bit_field_info |-> [container |-> type_spec.container,
                                      start_bit |-> type_spec.start_bit,
                                      length |-> type_spec.length]]
          [] type_spec.kind = "array" ->
                 [name |-> field_def.name,
                  c_type |-> get_c_type(type_spec.name) \o "_array_t *",
                  is_array |-> TRUE, is_bit_field |-> FALSE,
                  bit_field_info |-> [container |-> "", start_bit |-> 0, length |-> 0]]
          [] type_spec.kind = "ref" ->
                 [name |-> field_def.name,
                  c_type |-> get_c_type(type_spec.name),
                  is_array |-> FALSE, is_bit_field |-> FALSE,
                  bit_field_info |-> [container |-> "", start_bit |-> 0, length |-> 0]]
          [] OTHER ->
                 [name |-> field_def.name, c_type |-> "uint8_t",
                  is_array |-> FALSE, is_bit_field |-> FALSE,
                  bit_field_info |-> [container |-> "", start_bit |-> 0, length |-> 0]]

\* generate_message numbering its messages from 0
generate_message_from_zero(name, msg_type, counter) ==
    [name |-> name,
     fields |-> [j \in 1..Len(msg_type.fields) |-> generate_field(msg_type.fields[j])],
     message_type_id |-> counter - 1,
     has_arrays |-> FALSE,
     has_bit_fields |-> FALSE]

\* generate_message: the GeneratedMessage of a message definition
generate_message(name, msg_type, counter) ==
    LET fields == [j \in 1..Len(msg_type.fields) |-> generate_field(msg_type.fields[j])]
    IN  [name |-> name,
         fields |-> fields,
         message_type_id |-> counter,
         has_arrays |-> \E j \in 1..Len(fields) : fields[j].is_array,
         has_bit_fields |-> \E j \in 1..Len(fields) : fields[j].is_bit_field]

\* generate_constant
generate_constant(name, const_def) ==
    [name |-> upper(name), type |-> get_c_type(const_def.type_ref),
     value |-> const_def.value]

\* 'for defn in ast[definitions]: self.types[defn.name] = defn.type_def':
\* the registry once the loop has run, a later definition replacing an
\* earlier one of the same name
RegistryOf(defs) ==
    [n \in {defs[i].name : i \in 1..Len(defs)} |->
        LET last == CHOOSE i \in 1..Len(defs) :
                        /\ defs[i].name = n
                        /\ \A j \in 1..Len(defs) : defs[j].name = n => j <= i
        IN  defs[last].type_def]

\* generate_header: what the template renders, message by message: the
\* message_type_t enumerators, the #defines, the structs, and the getter /
\* setter pair of every bit-field of a message that has bit-fields
generate_header(data) ==
    [message_types |->
         [i \in 1..Len(data.messages) |->
             <<upper(data.messages[i].name) \o "_MESSAGE_TYPE",
               data.messages[i].message_type_id>>],
     constants |-> data.constants,
     structs |->
         [i \in 1..Len(data.messages) |->
             [name |-> data.messages[i].name \o "_t",
              fields |-> [j \in 1..Len(data.messages[i].fields) |->
                             <<data.messages[i].fields[j].c_type,
                               data.messages[i].fields[j].name>>]]],
     accessors |->
         UNION {{[struct |-> i,
                  field |-> data.messages[i].fields[j].name,
                  c_type |-> data.messages[i].fields[j].c_type,
                  info |-> data.messages[i].fields[j].bit_field_info] :
                     j \in {k \in 1..Len(data.messages[i].fields) :
                                data.messages[i].fields[k].is_bit_field}} :
                i \in {k \in 1..Len(data.messages) :
                           data.messages[k].has_bit_fields}}]

\* main has parsed and transformed a schema file; a fresh CodeGenerator
InitCompile ==
    /\ LayoutIdle
    /\ BitsIdle
    /\ DecodeIdle
    /\ ToolsIdle
    /\ definitions \in SeqsUpTo(DefinitionChoices, MaxDefs)
    /\ types = << >>
    /\ generated = Unset
    /\ message_type_counter = 1
    /\ def_i = 0
    /\ header_file = Unset
    /\ comp_pc = "parsed"

\* process_ast, first loop: every definition is entered in the registry
RegisterTypes ==
    /\ comp_pc = "parsed"
    /\ types' = RegistryOf(definitions)
    /\ generated' = [messages |-> << >>, constants |-> << >>]
    /\ def_i' = 1
    /\ comp_pc' = "registered"
    /\ UNCHANGED <<definitions, message_type_counter, header_file>>
    /\ UNCHANGED <<layVars, bitVars, decVars, toolVars>>

\* process_ast, second loop, one definition: a message or a constant is
\* generated, any other definition is passed over
GenerateDefinition ==
    /\ comp_pc = "registered"
    /\ def_i <= Len(definitions)
    /\ LET defn == definitions[def_i]
       IN  CASE defn.type_def.kind = "message" ->
                    /\ generated' = [generated EXCEPT !.messages =
                           Append(@, generate_message(defn.name, defn.type_def,
                                                      message_type_counter))]
                    /\ message_type_counter' = message_type_counter + 1
             [] defn.type_def.kind = "constant" ->
                    /\ generated' = [generated EXCEPT !.constants =
                           Append(@, generate_constant(defn.name, defn.type_def))]
                    /\ UNCHANGED message_type_counter
             [] OTHER -> UNCHANGED <<generated, message_type_counter>>
    /\ def_i' = def_i + 1
    /\ UNCHANGED <<definitions, types, header_file, comp_pc>>
    /\ UNCHANGED <<layVars, bitVars, decVars, toolVars>>

\* process_ast has returned: main renders the header and writes <stem>.h
WriteHeader ==
    /\ comp_pc = "registered"
    /\ def_i > Len(definitions)
    /\ header_file' = generate_header(generated)
    /\ comp_pc' = "written"
    /\ UNCHANGED <<definitions, types, generated, message_type_counter, def_i>>
    /\ UNCHANGED <<layVars, bitVars, decVars, toolVars>>

NextCompile == RegisterTypes \/ GenerateDefinition \/ WriteHeader

SpecCompile == InitCompile /\ [][NextCompile]_vars


-----------------------------------------------------------------------------
(* Properties of the compilation of a schema file (SpecCompile) *)

\* the definitions of the file that are named n
DefsNamed(n) == {i \in 1..Len(definitions) : definitions[i].name = n}

\* the type names the body of a definition refers to
RefsOf(td) ==
    IF td.kind = "message"
    THEN {td.fields[j].type_spec.name :
              j \in {k \in 1..Len(td.fields) : td.fields[k].type_spec.kind # "bit_field"}}
    ELSE IF td.kind = "constant" THEN {td.type_ref}
    ELSE {}

\* some field or constant of the file refers to a name that is neither a
\* base type nor defined in the file
HasUnknownType ==
    \E i \in 1..Len(definitions) :
        \E n \in RefsOf(definitions[i].type_def) :
            n \notin DOMAIN type_map /\ DefsNamed(n) = {}

\* the names the file defines more than once
DuplicatedNames == {n \in DefNames : Cardinality(DefsNamed(n)) > 1}

\* the messages a message named n holds by value: the types its plain
\* (non-array) fields refer to
ContainedIn(n) ==
    {m \in DefNames :
        \E i \in DefsNamed(n) :
            /\ definitions[i].type_def.kind = "message"
            /\ \E j \in 1..Len(definitions[i].type_def.fields) :
                  /\ definitions[i].type_def.fields[j].type_spec.kind = "ref"
                  /\ definitions[i].type_def.fields[j].type_spec.name = m}

RECURSIVE ReachableFrom(_, _)
\* what the names of S hold by value, directly or through k further steps
ReachableFrom(S, k) ==
    IF k = 0 THEN S
    ELSE ReachableFrom(S \cup UNION {ContainedIn(m) : m \in S}, k - 1)

\* some message of the file contains itself by value, directly or indirectly
HasSelfReferentialRecord ==
    \E n \in DefNames : n \in ReachableFrom(ContainedIn(n), Cardinality(DefNames))

\* the bit width of the C type of a container field
CTypeBits(c_type) ==
    CASE c_type = "uint8_t" -> 8 [] c_type = "uint16_t" -> 16
      [] c_type = "uint32_t" -> 32 [] OTHER -> 64

\* the width of the container of an emitted accessor pair: the width of the
\* struct member the accessors shift
AccessorContainerBits(hdr, a) ==
    LET fs == hdr.structs[a.struct].fields
        j  == CHOOSE k \in 1..Len(fs) : fs[k][2] = a.info.container
    IN  CTypeBits(fs[j][1])

message_type_enum(defs) ==
    LET messages == SelectSeq(defs, LAMBDA d : d.type_def.kind = "message")
    IN  [i \in 1..Len(messages) |-> <<upper(messages[i].name) \o "_MESSAGE_TYPE", i>>]

\* C21: message-type ordinals follow the order of definition: in the header
\* written for a file the k-th message definition (primitive and constant
\* definitions not counted) has the ordinal k, so the ordinals are 1..n
\* without gap or repeat; the counter of process_ast / process and the
\* enumerate(messages, 1) of the oldest generator give the same enumerators.
MessageOrdinalsFollowDefinitionOrder ==
    (comp_pc = "written") =>
        /\ header_file.message_types = message_type_enum(definitions)
        /\ \A k \in 1..Len(header_file.message_types) :
               header_file.message_types[k][2] = k
        /\ Len(header_file.message_types) =
               Cardinality({i \in 1..Len(definitions) :
                               definitions[i].type_def.kind = "message"})

\* a header is written for a file whose first definition is not a message
\* and whose second is: that message has ordinal 1
MessageAfterConstantNumbered ==
    /\ comp_pc = "written"
    /\ Len(definitions) = 2
    /\ definitions[1].type_def.kind = "constant"
    /\ definitions[2].type_def.kind = "message"
    /\ header_file.message_types[1][2] = 1

-----------------------------------------------------------------------------
(* Properties of the emitted <R>_dispose *)

\* C22: <R>_dispose called with a NULL value is a no-op: the step it takes
\* is its return, with the heap as it was, no free made, and no field
\* reached (so no nested <T>_dispose and no dispose hook called).
NullDisposeIsNoOp ==
    [][(Running("dispose", "dentry") /\ Top.addr[1] = 0) =>
          /\ stack' = Pop
          /\ heap' = heap
          /\ bad_free' = bad_free
          /\ allocated' = allocated]_vars

\* the caller disposed its NULL pointer and the call came back, nothing freed
NullDisposeReturned ==
    /\ stack = << >>
    /\ call_ret = [rc |-> "void", ptr |-> 0]
    /\ value_out = 0
    /\ heap = {}
    /\ ~bad_free

WrittenRange(k) ==
    IF wr_log[k].kind = "scalar"
    THEN {p \in 0..(output_len - 1) : wr_log[k].at <= p /\ p < wr_log[k].at + wr_log[k].size}
    ELSE {}

CachedMemberEqualsGetter ==
    (bf_pc = "got") => (member = bf_got)

-----------------------------------------------------------------------------
(* Properties of concurrent calls (SpecConcurrent) *)

RECURSIVE RunAlone(_, _, _, _)
\* thread t runs its call to the end with no other thread running
RunAlone(S, t, inp, k) ==
    IF k = 0 \/ S.thr[t].pc = "done" THEN S
    ELSE RunAlone(Step(S, t, inp), t, inp, k - 1)

\* the statement groups of the longest call
MostSteps == 2 * NumConFields + 2

\* the calls made one after the other, thread a first
OneAfterTheOther(a, b) ==
    RunAlone(RunAlone([thr |-> InitialThr, mem |-> InitialMem], a, con_in, MostSteps),
             b, con_in, MostSteps)

\* what the caller in thread t has once its call is back: the code returned,
\* its remaining buffer, its output bytes, the decoded record it was handed,
\* its own record and whether that is still allocated
Outcome(S, t) ==
    [ret |-> S.thr[t].ret,
     rem |-> S.mem[RemLoc(t)],
     out |-> [i \in 0..(MaxBufLen - 1) |-> S.mem[OutLoc(t, i)]],
     rec |-> IF S.mem[ValueLoc(t)] = 0 THEN << >>
             ELSE [k \in 1..NumConFields |-> S.mem[FieldLoc(S.mem[ValueLoc(t)], k)]],
     own |-> [k \in 1..NumConFields |-> S.mem[FieldLoc(t, k)]],
     live |-> S.mem[LiveLoc(t)]]

-----------------------------------------------------------------------------
(* Properties of the driver (SpecDriver) *)

\* the input files that are missing or fail
FailingFiles == {i \in 1..Len(input_files) : input_files[i] # "ok"}

\* a sequence of file indices lists exactly the files of S, in argument order
ListsInOrder(q, S) ==
    /\ {q[k] : k \in 1..Len(q)} = S
    /\ Len(q) = Cardinality(S)
    /\ \A j, k \in 1..Len(q) : j < k => q[j] < q[k]

\* every file was attempted: the failing ones got a diagnostic and no
\* header, the others a header
EveryFileAttempted ==
    /\ ListsInOrder(diagnostics, FailingFiles)
    /\ ListsInOrder(written, (1..Len(input_files)) \ FailingFiles)

\* C24 (as claimed): main attempts every input file in argument order, a
\* failing file giving a diagnostic and no header, and the process exits
\* with a non-zero status when at least one file was missing or failed.
DriverExitsNonZeroOnFailure ==
    (exit_status # "running") =>
        /\ EveryFileAttempted
        /\ (FailingFiles # {}) => (exit_status # "0")

-----------------------------------------------------------------------------
(* Properties of parse_struct_fields (SpecFields) *)

\* C29 (as claimed): parse_struct_fields gives one Field per member
\* declaration, in order, with the declared type ('struct S' for a struct
\* member), name, array size and pointer flag, and generate_implementation
\* takes the nested-record branch for every non-pointer struct member.
FieldsAsDeclared ==
    /\ (ps_pc \in {"parsed", "generated"}) =>
          /\ Len(parsed_fields) = Len(decls)
          /\ \A k \in 1..Len(decls) :
                parsed_fields[k] =
                    Field(decls[k].type, decls[k].name, decls[k].arr, decls[k].ptr)
    /\ (ps_pc = "generated") =>
          \A k \in 1..Len(decls) :
              (decls[k].type = struct_S_text /\ ~decls[k].ptr) =>
                  emitted[k] \in {"record", "array of records"}

-----------------------------------------------------------------------------
(* Properties of SimplePDLParser (SpecPdl) *)

\* C30 (as claimed): parse_file returns one definition for each def
\* statement, in source order, a primitive with its byte_order as the
\* declared list of integers and a message with one field for each declared
\* field, in order, with the declared name and type reference.
DefinitionsAsDeclared ==
    (pdl_pc = "parsed") =>
        /\ ~results.raised
        /\ results.definitions = pdl_schema

====
